---- MODULE Spec2Model ----
(***************************************************************************)
(* A model of the anki-mcp tool server: the generated tool handlers        *)
(* (preset search, scheduling search, create, list, update_tags, sync),    *)
(* the AnkiConnect client they call, and the staleness gate in front of    *)
(* them.                                                                   *)
(*                                                                         *)
(* Strings are sequences of tokens.  A token is a word that the code never *)
(* splits (a field name, a search term, a placeholder, a markup tag) or    *)
(* the single blank " ".  Concatenation is \o, and trim() removes blank    *)
(* tokens from both ends.                                                  *)
(***************************************************************************)
EXTENDS Integers, Sequences, FiniteSets, TLC

VARIABLES
    pc,            \* where the current tool invocation is suspended
    req,           \* the invocation: [tool |-> name, args |-> caller arguments]
    calls,         \* backend requests issued by the invocation, in order
    ids,           \* result of the find call (noteIds / cardIds / existing)
    infos,         \* fetched records, after the in-place sort
    result,        \* what the handler returned
    reply,         \* the last response envelope invoke() received
    lastSyncTime,  \* sync.ts: let lastSyncTime
    now            \* Date.now(), in seconds

vars == <<pc, req, calls, ids, infos, result, reply, lastSyncTime, now>>

----------------------------------------------------------------------------
(* Bounds *)

MaxNotes == 5      \* notes in the collection
MaxCards == 5      \* cards in the collection
MaxTime == 2       \* clock readings
SyncInterval == 1  \* config.sync.syncIntervalSeconds, scaled to the clock
NumCalls == 2      \* tool invocations in flight together
MaxSessions == 2   \* HTTP sessions ever opened

----------------------------------------------------------------------------
(* Sequences and strings *)

Range(s) == {s[i] : i \in DOMAIN s}

Min(a, b) == IF a < b THEN a ELSE b
Max(a, b) == IF a > b THEN a ELSE b

Reverse(s) == [i \in 1..Len(s) |-> s[Len(s) + 1 - i]]

RotateLeft(s) == IF s = <<>> THEN s ELSE Append(Tail(s), Head(s))

(* Array.prototype.slice(start, end): negative indexes count from the end, *)
(* both are clamped to [0, length].  Positions are 0-based as in the code. *)
SliceIndex(len, k) == IF k < 0 THEN Max(len + k, 0) ELSE Min(k, len)

Slice(s, start, end) ==
    LET from == SliceIndex(Len(s), start)
        to   == SliceIndex(Len(s), end)
    IN  IF to <= from THEN <<>> ELSE SubSeq(s, from + 1, to)

(* Array.prototype.sort with a numeric comparator a.key - b.key: stable.   *)
(* ps is a sequence of <<key, value>> pairs.                               *)
RECURSIVE StableInsert(_, _)
StableInsert(p, sorted) ==
    IF sorted = <<>> THEN <<p>>
    ELSE IF sorted[Len(sorted)][1] <= p[1] THEN Append(sorted, p)
    ELSE Append(StableInsert(p, SubSeq(sorted, 1, Len(sorted) - 1)),
                sorted[Len(sorted)])

RECURSIVE SortPairs(_)
SortPairs(ps) ==
    IF ps = <<>> THEN <<>>
    ELSE StableInsert(ps[Len(ps)], SortPairs(SubSeq(ps, 1, Len(ps) - 1)))

SortByKey(s, keys) ==
    LET sorted == SortPairs([i \in 1..Len(s) |-> <<keys[i], s[i]>>])
    IN  [i \in 1..Len(s) |-> sorted[i][2]]

(* Position of the first occurrence of x in s, 0 when absent. *)
RECURSIVE IndexOf(_, _)
IndexOf(s, x) ==
    IF s = <<>> THEN 0
    ELSE IF Head(s) = x THEN 1
    ELSE LET k == IndexOf(Tail(s), x) IN IF k = 0 THEN 0 ELSE k + 1

(* String.prototype.trim *)
RECURSIVE TrimStart(_)
TrimStart(s) ==
    IF s # <<>> /\ Head(s) = " " THEN TrimStart(Tail(s)) ELSE s

Trim(s) == Reverse(TrimStart(Reverse(TrimStart(s))))

(* Array.prototype.join *)
RECURSIVE Join(_, _)
Join(parts, sep) ==
    IF parts = <<>> THEN <<>>
    ELSE IF Len(parts) = 1 THEN parts[1]
    ELSE parts[1] \o sep \o Join(Tail(parts), sep)

----------------------------------------------------------------------------
(* Configuration: the presets and creation templates the tools are built  *)
(* from.  A parameter declaration is [key, type, default]; declarations    *)
(* are kept in declaration order (Object.entries / Object.keys).           *)

SearchNotesPreset ==
    [name |-> "search_notes",
     baseQuery |-> <<"\"deck:TestDeck\"">>,
     parameters |-> <<>>,
     searchFields |-> <<"Front", "Back">>,
     tagFilters |-> <<"verb", "noun">>,
     defaultReturnedFields |-> <<"Front">>,
     optionalReturnedFields |-> <<"Back", "Extra">>,
     optionalReturnedTags |-> TRUE,
     includeSchedulingData |-> FALSE,
     defaultLimit |-> 25,
     defaultSort |-> "added_desc",
     sortOptions |-> <<"added_asc", "added_desc", "modified_asc", "modified_desc">>]

RecentPreset ==
    [name |-> "recent",
     baseQuery |-> <<"\"deck:TestDeck\"", " ", "introduced:", "${days}">>,
     parameters |-> <<[key |-> "days", type |-> "number", default |-> 7]>>,
     searchFields |-> <<>>,
     tagFilters |-> <<>>,
     defaultReturnedFields |-> <<"Front">>,
     optionalReturnedFields |-> <<"Back">>,
     optionalReturnedTags |-> FALSE,
     includeSchedulingData |-> FALSE,
     defaultLimit |-> 10,
     defaultSort |-> "added_desc",
     sortOptions |-> <<"added_asc", "added_desc">>]

StrugglingPreset ==
    [name |-> "struggling",
     baseQuery |-> <<"\"deck:TestDeck\"", " ", "prop:lapses>3">>,
     parameters |-> <<>>,
     searchFields |-> <<>>,
     tagFilters |-> <<>>,
     defaultReturnedFields |-> <<"Front">>,
     optionalReturnedFields |-> <<"Back">>,
     optionalReturnedTags |-> FALSE,
     includeSchedulingData |-> TRUE,
     defaultLimit |-> 20,
     defaultSort |-> "lapses_desc",
     sortOptions |-> <<"lapses_desc", "lapses_asc", "ease_asc", "ease_desc">>]

(* A base query with blanks around it, one search field and one tag; a     *)
(* default field that some notes lack.                                     *)
DuePreset ==
    [name |-> "due",
     baseQuery |-> <<" ", "is:due", " ">>,
     parameters |-> <<>>,
     searchFields |-> <<"Front">>,
     tagFilters |-> <<"verb">>,
     defaultReturnedFields |-> <<"Front", "Extra">>,
     optionalReturnedFields |-> <<>>,
     optionalReturnedTags |-> FALSE,
     includeSchedulingData |-> FALSE,
     defaultLimit |-> 50,
     defaultSort |-> "added_asc",
     sortOptions |-> <<"added_asc">>]

(* Two parameters, a string and a number; one placeholder is repeated. *)
ByDeckPreset ==
    [name |-> "by_deck",
     baseQuery |-> <<"deck:", "${deck}", " ", "rated:", "${days}", " ",
                     "-deck:", "${deck}">>,
     parameters |-> <<[key |-> "deck", type |-> "string", default |-> <<"Main">>],
                      [key |-> "days", type |-> "number", default |-> 7]>>,
     searchFields |-> <<>>,
     tagFilters |-> <<>>,
     defaultReturnedFields |-> <<"Front">>,
     optionalReturnedFields |-> <<>>,
     optionalReturnedTags |-> FALSE,
     includeSchedulingData |-> FALSE,
     defaultLimit |-> 50,
     defaultSort |-> "added_desc",
     sortOptions |-> <<"added_asc", "added_desc">>]

(* config.presets *)
Presets == <<SearchNotesPreset, RecentPreset, StrugglingPreset, DuePreset, ByDeckPreset>>

PracticeConfig ==
    [name |-> "practice",
     deckName |-> "Practice",
     noteType |-> "TestModel",
     fields |-> <<[name |-> "Front", required |-> TRUE],
                  [name |-> "Back", required |-> TRUE],
                  [name |-> "Extra", required |-> FALSE]>>,
     allowedTags |-> <<"verb", "noun">>,
     rejectDuplicates |-> <<>>,
     defaultTag |-> "generated"]

VocabConfig ==
    [name |-> "vocab",
     deckName |-> "Vocab",
     noteType |-> "TestModel",
     fields |-> <<[name |-> "Front", required |-> TRUE],
                  [name |-> "Back", required |-> TRUE]>>,
     allowedTags |-> <<"verb", "noun">>,
     rejectDuplicates |-> <<"Front">>,
     defaultTag |-> "new"]

(* A template whose first required field is not its first field. *)
ExtrasConfig ==
    [name |-> "extras",
     deckName |-> "Extras",
     noteType |-> "TestModel",
     fields |-> <<[name |-> "Front", required |-> FALSE],
                  [name |-> "Extra", required |-> TRUE]>>,
     allowedTags |-> <<"verb">>,
     rejectDuplicates |-> <<>>,
     defaultTag |-> "extra"]

(* A template with no required field. *)
LooseConfig ==
    [name |-> "loose",
     deckName |-> "Loose",
     noteType |-> "TestModel",
     fields |-> <<[name |-> "Back", required |-> FALSE],
                  [name |-> "Front", required |-> FALSE]>>,
     allowedTags |-> <<"noun">>,
     rejectDuplicates |-> <<>>,
     defaultTag |-> "loose"]

(* config.practiceNotes *)
PracticeNotes == <<PracticeConfig, VocabConfig, ExtrasConfig, LooseConfig>>

PresetNamed(n) == CHOOSE p \in Range(Presets) : p.name = n

----------------------------------------------------------------------------
(* Optional values: <<>> is undefined, <<v>> is the value v.               *)

Undefined == <<>>
Some(v) == <<v>>
Arg(args, key) == IF key \in DOMAIN args THEN Some(args[key]) ELSE Undefined
OrElse(opt, dflt) == IF opt = Undefined THEN dflt ELSE opt[1]

NoArgs == [k \in {} |-> 0]

----------------------------------------------------------------------------
(* Query builder: buildQuery(preset, customParams, search, tags).          *)

Placeholder(key) == "${" \o key \o "}"

(* String(value): a number in its decimal form, a string as it is. *)
Render(type, value) == IF type = "number" THEN <<ToString(value)>> ELSE value

(* String.prototype.replace(pattern: string, by): the first occurrence only. *)
ReplaceFirst(s, token, by) ==
    LET k == IndexOf(s, token)
    IN  IF k = 0 THEN s
        ELSE SubSeq(s, 1, k - 1) \o by \o SubSeq(s, k + 1, Len(s))

RECURSIVE Substitute(_, _, _)
Substitute(query, parameters, customParams) ==
    IF parameters = <<>> THEN query
    ELSE LET def == Head(parameters)
             value == IF def.key \in DOMAIN customParams
                      THEN customParams[def.key] ELSE def.default
         IN  Substitute(ReplaceFirst(query, Placeholder(def.key),
                                     Render(def.type, value)),
                        Tail(parameters), customParams)

(* One clause appended bare, several joined with OR inside parentheses. *)
ClauseGroup(clauses) ==
    IF Len(clauses) = 1 THEN clauses[1]
    ELSE <<"(">> \o Join(clauses, <<" ", "OR", " ">>) \o <<")">>

SearchClauses(searchFields, term) ==
    [i \in 1..Len(searchFields) |-> <<searchFields[i], ":*">> \o term \o <<"*">>]

TagClauses(tags) == [i \in 1..Len(tags) |-> <<"tag:", tags[i]>>]

SearchPart(preset, search) ==
    IF search # Undefined /\ search[1] # <<>> /\ Len(preset.searchFields) > 0
    THEN <<" ">> \o ClauseGroup(SearchClauses(preset.searchFields, search[1]))
    ELSE <<>>

TagPart(tags) ==
    IF tags # Undefined /\ Len(tags[1]) > 0
    THEN <<" ">> \o ClauseGroup(TagClauses(tags[1]))
    ELSE <<>>

buildQuery(preset, customParams, search, tags) ==
    Trim(Substitute(preset.baseQuery, preset.parameters, customParams)
         \o SearchPart(preset, search)
         \o TagPart(tags))

----------------------------------------------------------------------------
(* The collection behind AnkiConnect.  Note ids are 1..MaxNotes and card   *)
(* ids 1..MaxCards; two consecutive cards belong to one note.              *)

NoteIds == 1..MaxNotes
CardIds == 1..MaxCards

Word(id) == "w" \o ToString(id)

ModOf(id) == 100 + 100 * (id % 2)

FieldsOf(id) ==
    IF id % 2 = 1
    THEN [Front |-> <<"<b>", Word(id), "</b>">>,
          Back  |-> <<"back", "&nbsp;", Word(id)>>,
          Extra |-> <<"<!-- x -->", "extra">>]
    ELSE [Front |-> <<" ", Word(id)>>,
          Back  |-> <<"back", "&nbsp;", Word(id)>>]

TagsOf(id) == IF id % 2 = 1 THEN <<"verb">> ELSE <<>>

NoteInfo(id) ==
    [noteId |-> id, tags |-> TagsOf(id), fields |-> FieldsOf(id), mod |-> ModOf(id)]

NoteOfCard(c) == (c + 1) \div 2

CardInfo(c) ==
    [cardId   |-> c,
     note     |-> NoteOfCard(c),
     interval |-> 10 * c - 15,
     ease     |-> 1300 + 400 * (c % 3),
     lapses   |-> (3 * c) % 4,
     reps     |-> 2 * c,
     fields   |-> FieldsOf(NoteOfCard(c))]

(* The orders in which the backend may answer for a list of ids: as given, *)
(* reversed, and the two rotations of those.                               *)
FetchOrders(wanted) ==
    {wanted, Reverse(wanted), RotateLeft(wanted), Reverse(RotateLeft(wanted))}

(* What a find call may answer: the ids of the k oldest records. *)
FindNotesResults == UNION {FetchOrders([i \in 1..k |-> i]) : k \in 0..MaxNotes}
FindCardsResults == UNION {FetchOrders([i \in 1..k |-> i]) : k \in 0..MaxCards}

NotesInfoResults(wanted) ==
    {[i \in 1..Len(o) |-> NoteInfo(o[i])] : o \in FetchOrders(wanted)}

CardsInfoResults(wanted) ==
    {[i \in 1..Len(o) |-> CardInfo(o[i])] : o \in FetchOrders(wanted)}

----------------------------------------------------------------------------
(* anki-client: invoke() posts one request and unwraps the response        *)
(* envelope {result, error}.                                               *)

Null == [null |-> TRUE]

(* A non-OK HTTP status: the body is never read. *)
HttpFailure == [ok |-> FALSE]

(* A populated error field; the result beside it, whatever it is, is never read. *)
ErrorEnvelope(R) ==
    [ok |-> TRUE, error |-> Some(<<"boom">>), result |-> CHOOSE r \in R : TRUE]

(* The envelopes AnkiConnect may send for a call whose results are in R. *)
Responses(R) ==
    {HttpFailure, ErrorEnvelope(R)}
    \cup {[ok |-> TRUE, error |-> e, result |-> r] :
             e \in {Undefined, Some(<<>>)}, r \in R}

(* A variant that never reads the error field. *)
invokeStatusOnly(resp) ==
    IF ~resp.ok THEN [threw |-> TRUE, error |-> "http"]
    ELSE [threw |-> FALSE, value |-> resp.result]

(* if (!resp.ok) throw ...; if (data.error) throw ...; return data.result *)
invoke(resp) ==
    IF ~resp.ok THEN [threw |-> TRUE, error |-> "http"]
    ELSE IF resp.error # Undefined /\ resp.error[1] # <<>>
         THEN [threw |-> TRUE, error |-> "anki"]
         ELSE [threw |-> FALSE, value |-> resp.result]

Request(action, params) == [action |-> action, params |-> params]

----------------------------------------------------------------------------
(* Field projection *)

HtmlTags == {"<b>", "</b>", "<br>", "<!-- x -->"}

(* html.replace(/<[^>]*>/g, "").replace(/&nbsp;/g, " ").trim() *)
stripHtml(html) ==
    LET kept == SelectSeq(html, LAMBDA t : t \notin HtmlTags)
    IN  Trim([i \in 1..Len(kept) |-> IF kept[i] = "&nbsp;" THEN " " ELSE kept[i]])

Truthy(include, key) ==
    include # Undefined /\ key \in DOMAIN include[1] /\ include[1][key]

FieldValue(fields, name) ==
    IF name \in DOMAIN fields THEN fields[name] ELSE <<>>

ReservedKeys == {"noteId", "tags"}

(* Keys of the compact result built from a record with these fields. *)
CompactKeys(fields, defaultFields, include, withTags) ==
    Range(defaultFields)
    \cup (IF Truthy(include, "noteId") THEN {"noteId"} ELSE {})
    \cup (IF include = Undefined THEN {}
          ELSE {k \in DOMAIN include[1] \ ReservedKeys :
                   include[1][k] /\ k \in DOMAIN fields})
    \cup (IF withTags /\ Truthy(include, "tags") THEN {"tags"} ELSE {})

toCompact(n, defaultFields, include) ==
    [k \in CompactKeys(n.fields, defaultFields, include, TRUE) |->
        IF k = "noteId" THEN n.noteId
        ELSE IF k = "tags" THEN n.tags
        ELSE stripHtml(FieldValue(n.fields, k))]

----------------------------------------------------------------------------
(* searchNotes(query, limit, include, sort, page) *)

(* A variant that leaves the ids as they were found. *)
UnsortedIds(noteIds, sort) == noteIds

SortedIds(noteIds, sort) ==
    IF sort = "added_asc" THEN SortByKey(noteIds, noteIds)
    ELSE IF sort = "added_desc"
         THEN SortByKey(noteIds, [i \in 1..Len(noteIds) |-> 0 - noteIds[i]])
         ELSE noteIds

(* A variant that takes the requested page as it is. *)
RequestedPage(page) == page

(* Math.max(1, page ?? 1) *)
EffectivePage(page) == Max(1, page)

Start(limit, page) == (EffectivePage(page) - 1) * limit

(* A variant that also slices when the limit is zero. *)
PagedFromZero(sorted, limit, page) ==
    IF limit >= 0
    THEN Slice(sorted, Start(limit, page), Start(limit, page) + limit)
    ELSE sorted

Paged(sorted, limit, page) ==
    IF limit > 0
    THEN Slice(sorted, Start(limit, page), Start(limit, page) + limit)
    ELSE sorted

(* A variant that keeps the fetched records as the backend returned them. *)
InfosAsFetched(fetched, sort, paged) == fetched

(* The in-place sort of the fetched records. *)
SortInfos(fetched, sort, paged) ==
    IF sort = "modified_asc"
    THEN SortByKey(fetched, [i \in 1..Len(fetched) |-> fetched[i].mod])
    ELSE IF sort = "modified_desc"
    THEN SortByKey(fetched, [i \in 1..Len(fetched) |-> 0 - fetched[i].mod])
    ELSE IF sort \in {"added_asc", "added_desc"}
    THEN SortByKey(fetched,
                   [i \in 1..Len(fetched) |->
                       IF IndexOf(paged, fetched[i].noteId) = 0 THEN 0
                       ELSE IndexOf(paged, fetched[i].noteId) - 1])
    ELSE fetched

(* A variant that counts the end of the candidates as one more page. *)
HasMoreInclusive(start, returned, total) == start + returned <= total

HasMore(start, returned, total) == start + returned < total

(* The page number reported in the envelope. *)
PageField(page) == EffectivePage(page)

Envelope(total, page, hasMore, notes) ==
    [total |-> total, page |-> PageField(page), hasMore |-> hasMore, notes |-> notes]

(* return { total, hasMore: false, notes: [] } *)
EmptyPageResult(noteIds, page) == Envelope(Len(noteIds), page, FALSE, <<>>)

SearchNotesResult(noteIds, sorted, defaultFields, limit, include, sort, page) ==
    LET paged == Paged(SortedIds(noteIds, sort), limit, page)
    IN  Envelope(Len(noteIds), page,
                 HasMore(Start(limit, page), Len(paged), Len(noteIds)),
                 [i \in 1..Len(sorted) |-> toCompact(sorted[i], defaultFields, include)])

----------------------------------------------------------------------------
(* searchCardsWithScheduling(query, limit, include, page, sort) *)

(* A variant that keeps every card. *)
KeepAll(allInfos, seen) == allInfos

(* for (const c of allInfos) { if (seen.has(c.note)) continue; ... } *)
RECURSIVE Dedupe(_, _)
Dedupe(allInfos, seen) ==
    IF allInfos = <<>> THEN <<>>
    ELSE IF Head(allInfos).note \in seen THEN Dedupe(Tail(allInfos), seen)
    ELSE <<Head(allInfos)>> \o Dedupe(Tail(allInfos), seen \cup {Head(allInfos).note})

SchedulingKeys == {"interval", "ease", "lapses", "reps"}

CardWithScheduling(c, defaultFields, include) ==
    [k \in CompactKeys(c.fields, defaultFields, include, FALSE) \cup SchedulingKeys |->
        IF k = "noteId" THEN c.note
        ELSE IF k \in SchedulingKeys THEN c[k]
        ELSE stripHtml(FieldValue(c.fields, k))]

AllResults(allInfos, defaultFields, include) ==
    LET kept == Dedupe(allInfos, {})
    IN  [i \in 1..Len(kept) |-> CardWithScheduling(kept[i], defaultFields, include)]

sortScheduled(results, sort) ==
    IF sort = "lapses_asc"
    THEN SortByKey(results, [i \in 1..Len(results) |-> results[i].lapses])
    ELSE IF sort = "lapses_desc"
    THEN SortByKey(results, [i \in 1..Len(results) |-> 0 - results[i].lapses])
    ELSE IF sort = "ease_asc"
    THEN SortByKey(results, [i \in 1..Len(results) |-> results[i].ease])
    ELSE IF sort = "ease_desc"
    THEN SortByKey(results, [i \in 1..Len(results) |-> 0 - results[i].ease])
    ELSE results

(* A variant that sorts the returned page after slicing. *)
SearchCardsSortPage(allInfos, defaultFields, limit, include, sort, page) ==
    LET allResults == AllResults(allInfos, defaultFields, include)
        notes == sortScheduled(Paged(allResults, limit, page), sort)
    IN  Envelope(Len(allResults), page,
                 HasMore(Start(limit, page), Len(notes), Len(allResults)),
                 notes)

SearchCardsResult(allInfos, defaultFields, limit, include, sort, page) ==
    LET allResults == sortScheduled(AllResults(allInfos, defaultFields, include), sort)
        notes == Paged(allResults, limit, page)
    IN  Envelope(Len(allResults), page,
                 HasMore(Start(limit, page), Len(notes), Len(allResults)),
                 notes)

----------------------------------------------------------------------------
(* Tool handlers.  A handler runs until its next backend round trip; pc    *)
(* names the request it is waiting on.                                     *)

NoRequest == [kind |-> "none"]
NoResult == [kind |-> "none"]
NoReply == [none |-> TRUE]

(* textResult(data) *)
textResult(data) == [kind |-> "ok", payload |-> data]

(* A variant of the gate that always finds it stale. *)
NeverFresh == FALSE

(* sync.ts: secondsSinceLastSync() < config.sync.syncIntervalSeconds *)
Fresh == lastSyncTime # 0 /\ (now - lastSyncTime) < SyncInterval

(* buildPresetTool: the handler's reading of its arguments *)
DeclaredKeys(preset) == {preset.parameters[i].key : i \in DOMAIN preset.parameters}

(* A variant that passes no caller value on. *)
NoCustomParams(preset, args) == NoArgs

CustomParams(preset, args) ==
    [k \in DeclaredKeys(preset) \cap DOMAIN args |-> args[k]]

(* A variant that filters by the preset's tags when the caller names none. *)
PresetQueryDefaultTags(preset, args) ==
    buildQuery(preset, CustomParams(preset, args), Arg(args, "search"),
               IF "tags" \in DOMAIN args THEN Some(args.tags) ELSE Some(preset.tagFilters))

(* A variant that drops the caller's tag filter. *)
PresetQueryNoTags(preset, args) ==
    buildQuery(preset, CustomParams(preset, args), Arg(args, "search"), Undefined)

(* A variant that passes the tag filter as the term and the term as the filter. *)
PresetQueryArgsSwapped(preset, args) ==
    buildQuery(preset, CustomParams(preset, args), Arg(args, "tags"), Arg(args, "search"))

PresetQuery(preset, args) ==
    buildQuery(preset, CustomParams(preset, args), Arg(args, "search"), Arg(args, "tags"))

LimitOf(preset, args) == OrElse(Arg(args, "limit"), preset.defaultLimit)
PageOf(args) == OrElse(Arg(args, "page"), 1)
SortOf(preset, args) == OrElse(Arg(args, "sort"), preset.defaultSort)
(* A variant that never passes the include selector on. *)
IncludeNothing(args) == Undefined

IncludeOf(args) == Arg(args, "include")

(* A variant that searches notes for every preset. *)
PresetBodyNotesOnly(r) ==
    [pc |-> "findNotes",
     calls |-> <<Request("findNotes", [query |-> PresetQuery(PresetNamed(r.name), r.args)])>>,
     result |-> NoResult]

(* The handler body up to its first backend request. *)
PresetBody(r) ==
    LET preset == PresetNamed(r.name)
        query == PresetQuery(preset, r.args)
    IN  IF preset.includeSchedulingData
        THEN [pc |-> "findCards", calls |-> <<Request("findCards", [query |-> query])>>,
              result |-> NoResult]
        ELSE [pc |-> "findNotes", calls |-> <<Request("findNotes", [query |-> query])>>,
              result |-> NoResult]

PracticeNamed(n) == CHOOSE c \in Range(PracticeNotes) : c.name = n

(* buildPracticeTools, create: fields[field.name] = args[field.name] ?? "" *)
CreateFields(cfg, args) ==
    [n \in {cfg.fields[i].name : i \in DOMAIN cfg.fields} |->
        OrElse(Arg(args, n), <<>>)]

(* A variant that looks up whenever the field is configured. *)
ChecksWheneverConfigured(cfg, args) == cfg.rejectDuplicates # Undefined

(* cfg.rejectDuplicates is set and the value of that field is not empty *)
ChecksDuplicates(cfg, args) ==
    /\ cfg.rejectDuplicates # Undefined
    /\ CreateFields(cfg, args)[cfg.rejectDuplicates[1]] # <<>>

DupeQuery(cfg, args) ==
    <<cfg.rejectDuplicates[1], ":">> \o CreateFields(cfg, args)[cfg.rejectDuplicates[1]]

CreateDeckRequest(cfg) == Request("createDeck", [deck |-> cfg.deckName])

AddNoteRequest(cfg, args) ==
    Request("addNote",
            [note |-> [deckName |-> cfg.deckName, modelName |-> cfg.noteType,
                       fields |-> CreateFields(cfg, args), tags |-> <<cfg.defaultTag>>]])

CreateBodyOf(cfg, args) ==
    IF ChecksDuplicates(cfg, args)
    THEN [pc |-> "dupFind",
          calls |-> <<Request("findNotes", [query |-> DupeQuery(cfg, args)])>>,
          result |-> NoResult]
    ELSE [pc |-> "createDeck", calls |-> <<CreateDeckRequest(cfg)>>,
          result |-> NoResult]

CreateBody(r) == CreateBodyOf(PracticeNamed(r.name), r.args)

(* A variant that tolerates one existing note. *)
HasSeveralExisting(existing) == Len(existing) > 1

(* if (existing.length > 0) *)
HasExisting(existing) == Len(existing) > 0

Rejection(cfg, args, existing) ==
    [success |-> FALSE,
     reason |-> <<"A note with", cfg.rejectDuplicates[1]>>
                \o CreateFields(cfg, args)[cfg.rejectDuplicates[1]]
                \o <<"already exists.">>,
     existingNoteIds |-> existing]

(* { success: true, noteId, tags } and every field the caller gave a value *)
Created(cfg, args, noteId) ==
    [success |-> TRUE, noteId |-> noteId, tags |-> <<cfg.defaultTag>>,
     echo |-> [n \in {cfg.fields[i].name : i \in DOMAIN cfg.fields}
                     \cap {k \in DOMAIN args : args[k] # <<>>} |-> args[n]]]

(* buildPracticeTools, list *)
ListBody(r) ==
    [pc |-> "listFind",
     calls |-> <<Request("findNotes",
                         [query |-> <<"\"deck:", PracticeNamed(r.name).deckName, "\"">>])>>,
     result |-> NoResult]

(* A variant that always takes the first declared field. *)
FirstField(cfg) == cfg.fields[1].name

(* cfg.fields.find((f) => f.required)?.name ?? cfg.fields[0].name *)
PrimaryField(cfg) ==
    IF \E i \in DOMAIN cfg.fields : cfg.fields[i].required
    THEN cfg.fields[CHOOSE i \in DOMAIN cfg.fields :
                       /\ cfg.fields[i].required
                       /\ \A j \in 1..(i - 1) : ~cfg.fields[j].required].name
    ELSE cfg.fields[1].name

ListResult(cfg, fetched) ==
    [i \in 1..Len(fetched) |-> stripHtml(FieldValue(fetched[i].fields, PrimaryField(cfg)))]

(* A variant that only asks whether the list was passed. *)
PresentArg(args, key) == key \in DOMAIN args

(* buildUpdateTagsTool: add?.length, remove?.length, tags.join(" ") *)
NonEmptyArg(args, key) == key \in DOMAIN args /\ Len(args[key]) > 0

JoinTags(tags) == Join([i \in 1..Len(tags) |-> <<tags[i]>>], <<" ">>)

TagRequest(action, args, key) ==
    Request(action, [notes |-> args.noteIds, tags |-> JoinTags(args[key])])

UpdateTagsResult(args) ==
    [success |-> TRUE, noteIds |-> args.noteIds,
     added |-> OrElse(Arg(args, "add"), <<>>),
     removed |-> OrElse(Arg(args, "remove"), <<>>)]

UpdateTagsBody(r) ==
    IF NonEmptyArg(r.args, "add")
    THEN [pc |-> "addTags", calls |-> <<TagRequest("addTags", r.args, "add")>>,
          result |-> NoResult]
    ELSE IF NonEmptyArg(r.args, "remove")
    THEN [pc |-> "removeTags", calls |-> <<TagRequest("removeTags", r.args, "remove")>>,
          result |-> NoResult]
    ELSE [pc |-> "done", calls |-> <<>>, result |-> textResult(UpdateTagsResult(r.args))]

Body(r) ==
    IF r.kind = "preset" THEN PresetBody(r)
    ELSE IF r.kind = "create" THEN CreateBody(r)
    ELSE IF r.kind = "list" THEN ListBody(r)
    ELSE UpdateTagsBody(r)

Enter(r, issued) ==
    /\ pc' = Body(r).pc
    /\ calls' = issued \o Body(r).calls
    /\ result' = Body(r).result

(* A variant that enters the handler body without the gate. *)
GateSkipped(r) == Enter(r, <<>>)

(* await syncIfStale() at the head of a handler *)
Gate(r) ==
    IF Fresh
    THEN Enter(r, <<>>)
    ELSE /\ pc' = "sync"
         /\ calls' = <<Request("sync", NoArgs)>>
         /\ result' = NoResult

(* invoke() threw: the handler's promise rejects. *)
Reject ==
    /\ pc' = "rejected"
    /\ result' = NoResult

----------------------------------------------------------------------------
(* Caller arguments *)

With(key, values) == {NoArgs} \cup {key :> v : v \in values}
Combine(A, B) == {a @@ b : a \in A, b \in B}

PagingArgs == Combine(With("limit", {-1, 0, 2}), With("page", {0, 2, 3}))

SearchNotesArgs ==
    Combine(PagingArgs, With("sort", {"modified_desc"}))
    \cup Combine(With("limit", {2}), With("sort", {"added_asc", "modified_asc"}))
    \cup Combine(With("search", {<<>>, <<"hello">>}),
                 With("tags", {<<>>, <<"verb">>, <<"verb", "noun">>}))
    \cup With("include", {[noteId |-> TRUE], [Back |-> TRUE, tags |-> TRUE],
                          [Extra |-> TRUE, noteId |-> FALSE]})

RecentArgs ==
    Combine(With("days", {14}), With("weeks", {2}))
    \cup Combine(With("limit", {1}), With("page", {2}))

StrugglingArgs ==
    Combine(PagingArgs, With("sort", {"lapses_asc"}))
    \cup Combine(With("limit", {2}), With("sort", {"ease_asc", "ease_desc", "added_desc"}))
    \cup With("include", {[noteId |-> TRUE], [Back |-> TRUE]})

DueArgs == Combine(With("search", {<<>>, <<"go">>}), With("tags", {<<>>, <<"verb">>}))

ByDeckArgs ==
    Combine(With("deck", {<<"Other">>}), With("days", {14}))
    \cup With("search", {<<"go">>})

PresetArgs(name) ==
    IF name = "search_notes" THEN SearchNotesArgs
    ELSE IF name = "recent" THEN RecentArgs
    ELSE IF name = "struggling" THEN StrugglingArgs
    ELSE IF name = "due" THEN DueArgs
    ELSE ByDeckArgs

CreateArgs(name) ==
    Combine(With("Front", {<<>>, <<"word">>}),
            IF name = "practice"
            THEN Combine(With("Back", {<<"def">>}), With("Extra", {<<"more">>}))
            ELSE IF name = "vocab" THEN With("Back", {<<"def">>})
            ELSE {"Extra" :> <<"more">>})

UpdateTagsArgs ==
    Combine({"noteIds" :> n : n \in {<<1>>, <<2, 1>>}},
            Combine(With("add", {<<>>, <<"verb">>, <<"verb", "noun">>}),
                    With("remove", {<<>>, <<"noun">>, <<"noun", "verb">>})))

(* What the backend may answer to the mutation and lookup calls. *)
ExistingResults == {<<>>, <<2>>, <<3, 1>>}
DeckIds == {1}
NewNoteIds == {MaxNotes + 1}

----------------------------------------------------------------------------
(* Actions *)

Init ==
    /\ pc = "boot"
    /\ req = NoRequest
    /\ calls = <<>>
    /\ ids = <<>>
    /\ infos = <<>>
    /\ result = NoResult
    /\ reply = NoReply
    /\ lastSyncTime = 0
    /\ now = 1

(* index.ts: await syncIfStale().catch(() => {}) once the server is connected *)
Startup ==
    /\ pc = "boot"
    /\ IF Fresh
       THEN pc' = "idle" /\ calls' = <<>>
       ELSE pc' = "bootSync" /\ calls' = <<Request("sync", NoArgs)>>
    /\ UNCHANGED <<req, ids, infos, result, reply, lastSyncTime, now>>

StartupSyncResponse ==
    /\ pc = "bootSync"
    /\ \E resp \in Responses({Null}) :
          /\ reply' = resp
          /\ lastSyncTime' = IF invoke(resp).threw THEN lastSyncTime ELSE now
    /\ pc' = "idle"
    /\ calls' = <<>>
    /\ UNCHANGED <<req, ids, infos, result, now>>

(* Time passes between tool calls and while a sync is in flight. *)
Tick ==
    /\ pc \in {"idle", "sync", "bootSync"}
    /\ now < MaxTime
    /\ now' = now + 1
    /\ UNCHANGED <<pc, req, calls, ids, infos, result, reply, lastSyncTime>>

CallPreset ==
    /\ pc = "idle"
    /\ \E i \in DOMAIN Presets : \E args \in PresetArgs(Presets[i].name) :
          LET r == [kind |-> "preset", name |-> Presets[i].name, args |-> args]
          IN  req' = r /\ Gate(r)
    /\ reply' = NoReply
    /\ UNCHANGED <<ids, infos, lastSyncTime, now>>

(* A variant that records the time whether or not the sync succeeded. *)
GateSyncAlwaysRecorded ==
    /\ pc = "sync"
    /\ \E resp \in Responses({Null}) :
          reply' = resp /\
          IF invoke(resp).threw
          THEN Reject /\ lastSyncTime' = now /\ UNCHANGED calls
          ELSE lastSyncTime' = now /\ Enter(req, calls)
    /\ UNCHANGED <<req, ids, infos, now>>

(* syncIfStale after its await sync() *)
GateSyncResponse ==
    /\ pc = "sync"
    /\ \E resp \in Responses({Null}) :
          reply' = resp /\
          IF invoke(resp).threw
          THEN Reject /\ UNCHANGED <<calls, lastSyncTime>>
          ELSE lastSyncTime' = now /\ Enter(req, calls)
    /\ UNCHANGED <<req, ids, infos, now>>

(* searchNotes after await findNotes(...) *)
FindNotesResponse ==
    /\ pc = "findNotes"
    /\ \E resp \in Responses(FindNotesResults) :
          reply' = resp /\
          IF invoke(resp).threw
          THEN Reject /\ UNCHANGED <<calls, ids>>
          ELSE LET preset == PresetNamed(req.name)
                   noteIds == invoke(resp).value
                   paged == Paged(SortedIds(noteIds, SortOf(preset, req.args)),
                                  LimitOf(preset, req.args), PageOf(req.args))
               IN  /\ ids' = noteIds
                   /\ IF Len(paged) = 0
                      THEN /\ pc' = "done"
                           /\ result' = textResult(EmptyPageResult(noteIds, PageOf(req.args)))
                           /\ calls' = calls
                      ELSE /\ pc' = "notesInfo"
                           /\ result' = result
                           /\ calls' = Append(calls, Request("notesInfo", [notes |-> paged]))
    /\ UNCHANGED <<req, infos, lastSyncTime, now>>

(* searchNotes after await notesInfo(paged) *)
NotesInfoResponse ==
    /\ pc = "notesInfo"
    /\ \E resp \in Responses(NotesInfoResults(calls[Len(calls)].params.notes)) :
          reply' = resp /\
          IF invoke(resp).threw
          THEN Reject /\ UNCHANGED infos
          ELSE LET preset == PresetNamed(req.name)
                   sort == SortOf(preset, req.args)
                   sorted == SortInfos(invoke(resp).value, sort,
                                       calls[Len(calls)].params.notes)
               IN  /\ infos' = sorted
                   /\ pc' = "done"
                   /\ result' = textResult(
                         SearchNotesResult(ids, sorted, preset.defaultReturnedFields,
                                           LimitOf(preset, req.args), IncludeOf(req.args),
                                           sort, PageOf(req.args)))
    /\ UNCHANGED <<req, calls, ids, lastSyncTime, now>>

(* searchCardsWithScheduling after await findCards(...) *)
FindCardsResponse ==
    /\ pc = "findCards"
    /\ \E resp \in Responses(FindCardsResults) :
          reply' = resp /\
          IF invoke(resp).threw
          THEN Reject /\ UNCHANGED <<calls, ids>>
          ELSE LET preset == PresetNamed(req.name)
                   cardIds == invoke(resp).value
               IN  /\ ids' = cardIds
                   /\ IF Len(cardIds) > 0
                      THEN /\ pc' = "cardsInfo"
                           /\ result' = result
                           /\ calls' = Append(calls, Request("cardsInfo", [cards |-> cardIds]))
                      ELSE /\ pc' = "done"
                           /\ calls' = calls
                           /\ result' = textResult(
                                 SearchCardsResult(<<>>, preset.defaultReturnedFields,
                                                   LimitOf(preset, req.args),
                                                   IncludeOf(req.args),
                                                   SortOf(preset, req.args),
                                                   PageOf(req.args)))
    /\ UNCHANGED <<req, infos, lastSyncTime, now>>

(* searchCardsWithScheduling after await cardsInfo(cardIds) *)
CardsInfoResponse ==
    /\ pc = "cardsInfo"
    /\ \E resp \in Responses(CardsInfoResults(ids)) :
          reply' = resp /\
          IF invoke(resp).threw
          THEN Reject /\ UNCHANGED infos
          ELSE LET preset == PresetNamed(req.name)
               IN  /\ infos' = invoke(resp).value
                   /\ pc' = "done"
                   /\ result' = textResult(
                         SearchCardsResult(invoke(resp).value, preset.defaultReturnedFields,
                                           LimitOf(preset, req.args), IncludeOf(req.args),
                                           SortOf(preset, req.args), PageOf(req.args)))
    /\ UNCHANGED <<req, calls, ids, lastSyncTime, now>>

CallCreate ==
    /\ pc = "idle"
    /\ \E i \in DOMAIN PracticeNotes : \E args \in CreateArgs(PracticeNotes[i].name) :
          LET r == [kind |-> "create", name |-> PracticeNotes[i].name, args |-> args]
          IN  req' = r /\ Gate(r)
    /\ reply' = NoReply
    /\ UNCHANGED <<ids, infos, lastSyncTime, now>>

(* create handler after await findNotes(dupeQuery) *)
DupFindResponse ==
    /\ pc = "dupFind"
    /\ \E resp \in Responses(ExistingResults) :
          reply' = resp /\
          IF invoke(resp).threw
          THEN Reject /\ UNCHANGED <<calls, ids>>
          ELSE LET cfg == PracticeNamed(req.name)
                   existing == invoke(resp).value
               IN  /\ ids' = existing
                   /\ IF HasExisting(existing)
                      THEN /\ pc' = "done"
                           /\ calls' = calls
                           /\ result' = textResult(Rejection(cfg, req.args, existing))
                      ELSE /\ pc' = "createDeck"
                           /\ calls' = Append(calls, CreateDeckRequest(cfg))
                           /\ result' = result
    /\ UNCHANGED <<req, infos, lastSyncTime, now>>

(* create handler after await createDeck(cfg.deckName) *)
CreateDeckResponse ==
    /\ pc = "createDeck"
    /\ \E resp \in Responses(DeckIds) :
          reply' = resp /\
          IF invoke(resp).threw
          THEN Reject /\ UNCHANGED calls
          ELSE /\ pc' = "addNote"
               /\ calls' = Append(calls, AddNoteRequest(PracticeNamed(req.name), req.args))
               /\ UNCHANGED result
    /\ UNCHANGED <<req, ids, infos, lastSyncTime, now>>

(* create handler after await addNote(...) *)
AddNoteResponse ==
    /\ pc = "addNote"
    /\ \E resp \in Responses(NewNoteIds) :
          reply' = resp /\
          IF invoke(resp).threw
          THEN Reject
          ELSE /\ pc' = "done"
               /\ result' = textResult(Created(PracticeNamed(req.name), req.args,
                                               invoke(resp).value))
    /\ UNCHANGED <<req, calls, ids, infos, lastSyncTime, now>>

CallList ==
    /\ pc = "idle"
    /\ \E i \in DOMAIN PracticeNotes :
          LET r == [kind |-> "list", name |-> PracticeNotes[i].name, args |-> NoArgs]
          IN  req' = r /\ Gate(r)
    /\ reply' = NoReply
    /\ UNCHANGED <<ids, infos, lastSyncTime, now>>

(* list handler after await findNotes(...) *)
ListFindResponse ==
    /\ pc = "listFind"
    /\ \E resp \in Responses(FindNotesResults) :
          reply' = resp /\
          IF invoke(resp).threw
          THEN Reject /\ UNCHANGED <<calls, ids>>
          ELSE LET noteIds == invoke(resp).value
               IN  /\ ids' = noteIds
                   /\ IF Len(noteIds) = 0
                      THEN /\ pc' = "done"
                           /\ calls' = calls
                           /\ result' = textResult(<<>>)
                      ELSE /\ pc' = "listInfo"
                           /\ calls' = Append(calls, Request("notesInfo", [notes |-> noteIds]))
                           /\ result' = result
    /\ UNCHANGED <<req, infos, lastSyncTime, now>>

(* list handler after await notesInfo(noteIds) *)
ListInfoResponse ==
    /\ pc = "listInfo"
    /\ \E resp \in Responses(NotesInfoResults(ids)) :
          reply' = resp /\
          IF invoke(resp).threw
          THEN Reject /\ UNCHANGED infos
          ELSE /\ infos' = invoke(resp).value
               /\ pc' = "done"
               /\ result' = textResult(ListResult(PracticeNamed(req.name),
                                                  invoke(resp).value))
    /\ UNCHANGED <<req, calls, ids, lastSyncTime, now>>

CallUpdateTags ==
    /\ pc = "idle"
    /\ \E args \in UpdateTagsArgs :
          LET r == [kind |-> "update_tags", name |-> "update_tags", args |-> args]
          IN  req' = r /\ Gate(r)
    /\ reply' = NoReply
    /\ UNCHANGED <<ids, infos, lastSyncTime, now>>

(* update_tags handler after await addTags(...) *)
AddTagsResponse ==
    /\ pc = "addTags"
    /\ \E resp \in Responses({Null}) :
          reply' = resp /\
          IF invoke(resp).threw
          THEN Reject /\ UNCHANGED calls
          ELSE IF NonEmptyArg(req.args, "remove")
               THEN /\ pc' = "removeTags"
                    /\ calls' = Append(calls, TagRequest("removeTags", req.args, "remove"))
                    /\ result' = result
               ELSE /\ pc' = "done"
                    /\ calls' = calls
                    /\ result' = textResult(UpdateTagsResult(req.args))
    /\ UNCHANGED <<req, ids, infos, lastSyncTime, now>>

(* update_tags handler after await removeTags(...) *)
RemoveTagsResponse ==
    /\ pc = "removeTags"
    /\ \E resp \in Responses({Null}) :
          reply' = resp /\
          IF invoke(resp).threw
          THEN Reject
          ELSE /\ pc' = "done"
               /\ result' = textResult(UpdateTagsResult(req.args))
    /\ UNCHANGED <<req, calls, ids, infos, lastSyncTime, now>>

(* The sync tool: await sync() with no staleness check *)
CallSync ==
    /\ pc = "idle"
    /\ req' = [kind |-> "sync", name |-> "sync", args |-> NoArgs]
    /\ pc' = "toolSync"
    /\ calls' = <<Request("sync", NoArgs)>>
    /\ reply' = NoReply
    /\ UNCHANGED <<ids, infos, result, lastSyncTime, now>>

(* A variant in which the explicit sync feeds the gate. *)
ToolSyncRecorded ==
    /\ pc = "toolSync"
    /\ \E resp \in Responses({Null}) :
          reply' = resp /\
          IF invoke(resp).threw
          THEN Reject /\ UNCHANGED lastSyncTime
          ELSE /\ pc' = "done"
               /\ result' = textResult([success |-> TRUE])
               /\ lastSyncTime' = now
    /\ UNCHANGED <<req, calls, ids, infos, now>>

ToolSyncResponse ==
    /\ pc = "toolSync"
    /\ \E resp \in Responses({Null}) :
          reply' = resp /\
          IF invoke(resp).threw
          THEN Reject
          ELSE /\ pc' = "done"
               /\ result' = textResult([success |-> TRUE])
    /\ UNCHANGED <<req, calls, ids, infos, lastSyncTime, now>>

(* The call has settled; the server waits for the next one. *)
Finish ==
    /\ pc \in {"done", "rejected"}
    /\ pc' = "idle"
    /\ req' = NoRequest
    /\ calls' = <<>>
    /\ ids' = <<>>
    /\ infos' = <<>>
    /\ result' = NoResult
    /\ reply' = NoReply
    /\ UNCHANGED <<lastSyncTime, now>>

Next ==
    \/ Startup
    \/ StartupSyncResponse
    \/ Tick
    \/ CallPreset
    \/ GateSyncResponse
    \/ FindNotesResponse
    \/ NotesInfoResponse
    \/ FindCardsResponse
    \/ CardsInfoResponse
    \/ CallCreate
    \/ DupFindResponse
    \/ CreateDeckResponse
    \/ AddNoteResponse
    \/ CallList
    \/ ListFindResponse
    \/ ListInfoResponse
    \/ CallUpdateTags
    \/ AddTagsResponse
    \/ RemoveTagsResponse
    \/ CallSync
    \/ ToolSyncResponse
    \/ Finish

Spec == Init /\ [][Next]_vars

----------------------------------------------------------------------------
(* Readings of the invocation in progress, taken from the caller's         *)
(* arguments and the recorded backend traffic.                             *)

InPreset == req.kind = "preset"
CurPreset == PresetNamed(req.name)
Scheduling == CurPreset.includeSchedulingData

AskedLimit ==
    IF "limit" \in DOMAIN req.args THEN req.args.limit ELSE CurPreset.defaultLimit
AskedPage == IF "page" \in DOMAIN req.args THEN req.args.page ELSE 1
AskedSort ==
    IF "sort" \in DOMAIN req.args THEN req.args.sort ELSE CurPreset.defaultSort
AskedInclude == Arg(req.args, "include")

ClampedPage == IF AskedPage < 1 THEN 1 ELSE AskedPage
ExpectedStart == (ClampedPage - 1) * AskedLimit

NotesDone == InPreset /\ pc = "done" /\ ~Scheduling
CardsDone == InPreset /\ pc = "done" /\ Scheduling
Payload == result.payload

DistinctNotes == {infos[i].note : i \in 1..Len(infos)}
CandidateCount == IF Scheduling THEN Cardinality(DistinctNotes) ELSE Len(ids)

NoteIdsOf(fetched) == [i \in 1..Len(fetched) |-> fetched[i].noteId]

(* The elements of s at the 0-based positions p with start <= p < start + limit. *)
PositionsFrom(s, start, limit) ==
    {p \in 0..(Len(s) - 1) : start <= p /\ p < start + limit}

ExpectedSlice(s, start, limit) ==
    [i \in 1..Cardinality(PositionsFrom(s, start, limit)) |-> s[start + i]]

RECURSIVE Ascending(_)
Ascending(S) ==
    IF S = {} THEN <<>>
    ELSE LET m == CHOOSE x \in S : \A y \in S : x <= y
         IN  <<m>> \o Ascending(S \ {m})

RECURSIVE Descending(_)
Descending(S) ==
    IF S = {} THEN <<>>
    ELSE LET m == CHOOSE x \in S : \A y \in S : x >= y
         IN  <<m>> \o Descending(S \ {m})

(* The candidate ids in the order the requested sort gives them before the *)
(* bulk fetch: by id for the identifier-order sorts, as found otherwise.   *)
ExpectedIdOrder ==
    IF AskedSort = "added_asc" THEN Ascending(Range(ids))
    ELSE IF AskedSort = "added_desc" THEN Descending(Range(ids))
    ELSE ids

IdOrderSort == AskedSort \in {"added_asc", "added_desc"}

Projected ==
    [i \in 1..Len(infos) |->
        toCompact(infos[i], CurPreset.defaultReturnedFields, AskedInclude)]

(* The deduplicated, sorted scheduling results before pagination. *)
ScheduledOrder ==
    sortScheduled(AllResults(infos, CurPreset.defaultReturnedFields, AskedInclude),
                  AskedSort)

----------------------------------------------------------------------------
(* C1, as the specification states it: for every candidate set, limit and  *)
(* page, total is the number of candidates before slicing and hasMore is   *)
(* true exactly when start + returnedCount < total, with                   *)
(* start = (max(1, page) - 1) * limit.                                     *)
C1_AsStated ==
    (InPreset /\ pc = "done") =>
        /\ Payload.total = CandidateCount
        /\ (Payload.hasMore <=> (ExpectedStart + Len(Payload.notes) < Payload.total))

(* C1, amended: total is the number of candidates before slicing, never    *)
(* the length of the returned slice.  In the scheduling search hasMore is  *)
(* true exactly when start + returnedCount < total; in the note search it  *)
(* is true exactly when the page is not empty and                          *)
(* start + returnedCount < total (an empty page always reports hasMore     *)
(* false, also when start is negative).  For 5 candidates and limit 2,     *)
(* page 2 gives total 5 and hasMore true, page 3 gives 1 item and hasMore  *)
(* false.                                                                  *)
C1_TotalAndHasMore ==
    (InPreset /\ pc = "done") =>
        /\ Payload.total = CandidateCount
        /\ Scheduling =>
              (Payload.hasMore <=>
                  (ExpectedStart + Len(Payload.notes) < Payload.total))
        /\ ~Scheduling =>
              (Payload.hasMore <=>
                  (/\ Len(Payload.notes) > 0
                   /\ ExpectedStart + Len(Payload.notes) < Payload.total))
        /\ (CandidateCount = 5 /\ AskedLimit = 2 /\ AskedPage = 2) =>
              (Payload.total = 5 /\ Payload.hasMore /\ Len(Payload.notes) = 2)
        /\ (CandidateCount = 5 /\ AskedLimit = 2 /\ AskedPage = 3) =>
              (Payload.total = 5 /\ ~Payload.hasMore /\ Len(Payload.notes) = 1)

(* Five candidates, limit 2, page 3: one note is left and hasMore is false. *)
C1_Witness ==
    /\ NotesDone
    /\ Len(ids) = 5 /\ AskedLimit = 2 /\ AskedPage = 3
    /\ Payload.total = 5 /\ Len(Payload.notes) = 1 /\ ~Payload.hasMore

C3_WholeCollection ==
    /\ (NotesDone /\ AskedLimit <= 0) =>
          /\ Len(Payload.notes) = Len(ids)
          /\ Range(NoteIdsOf(infos)) = Range(ids)
          /\ IdOrderSort => NoteIdsOf(infos) = ExpectedIdOrder
          /\ AskedSort = "modified_desc" =>
                \A i, j \in 1..Len(infos) : i < j => infos[i].mod >= infos[j].mod
          /\ Payload.notes = Projected
    /\ (CardsDone /\ AskedLimit <= 0) =>
          /\ Payload.notes = ScheduledOrder
          /\ Len(Payload.notes) = Cardinality(DistinctNotes)

(* Five candidates, a negative limit, page 3: all five come back. *)
C3_Witness ==
    /\ NotesDone
    /\ Len(ids) = 5 /\ AskedLimit = -1 /\ AskedPage = 3
    /\ Len(Payload.notes) = 5

(* The fetched card an entry of the scheduling result was built from: the  *)
(* interval identifies the card.                                           *)
CardsOfEntry(e) == {j \in 1..Len(infos) : infos[j].interval = e.interval}

FirstOfItsNote(j) == \A k \in 1..(j - 1) : infos[k].note # infos[j].note

(* C4: a scheduling search returns one entry per distinct note id among    *)
(* the fetched cards; the entry carries the fields and the                 *)
(* interval/ease/lapses/reps of the first card of that note in fetch       *)
(* order, and total is the number of distinct note ids, not of cards.      *)
C4_FirstCardPerNote ==
    CardsDone =>
        /\ Payload.total = Cardinality(DistinctNotes)
        /\ \A i \in 1..Len(Payload.notes) :
              \E j \in CardsOfEntry(Payload.notes[i]) :
                 /\ FirstOfItsNote(j)
                 /\ Payload.notes[i].ease = infos[j].ease
                 /\ Payload.notes[i].lapses = infos[j].lapses
                 /\ Payload.notes[i].reps = infos[j].reps
                 /\ Payload.notes[i].Front = stripHtml(infos[j].fields.Front)
        /\ \A i, k \in 1..Len(Payload.notes) :
              i # k => Payload.notes[i].interval # Payload.notes[k].interval
        /\ AskedLimit <= 0 => Len(Payload.notes) = Cardinality(DistinctNotes)

(* Four cards of two notes, answered newest card first: two entries. *)
C4_Witness ==
    /\ CardsDone
    /\ Len(infos) = 4 /\ infos[1].cardId = 4 /\ infos[2].cardId = 3
    /\ Payload.total = 2 /\ Len(Payload.notes) = 2
    /\ \E i \in 1..2 : Payload.notes[i].interval = infos[1].interval

----------------------------------------------------------------------------
(* The create handler *)

InCreate == req.kind = "create"
CurTemplate == PracticeNamed(req.name)

ActionsOf(s) == [i \in 1..Len(s) |-> s[i].action]

MutationCalls ==
    SelectSeq(calls, LAMBDA c : c.action \in {"createDeck", "addNote"})

LookupCalls == SelectSeq(calls, LAMBDA c : c.action = "findNotes")

(* C5: for a creation template with a reject-duplicate field, a duplicate  *)
(* lookup that returns at least one note id ends the call with no          *)
(* createDeck and no addNote and with success false and exactly the ids    *)
(* the lookup returned; a lookup that returns none is followed by exactly  *)
(* one createDeck and then exactly one addNote.                            *)
C5_DuplicateRejection ==
    (InCreate /\ CurTemplate.rejectDuplicates # <<>>) =>
        /\ Len(LookupCalls) <= 1
        /\ ActionsOf(MutationCalls) \in
              {<<>>, <<"createDeck">>, <<"createDeck", "addNote">>}
        /\ ids # <<>> =>
              /\ pc = "done"
              /\ Len(LookupCalls) = 1
              /\ MutationCalls = <<>>
              /\ reply.result = ids
              /\ Payload.success = FALSE
              /\ Payload.existingNoteIds = reply.result
        /\ (pc = "done" /\ ids = <<>>) =>
              /\ ActionsOf(MutationCalls) = <<"createDeck", "addNote">>
              /\ Payload.success = TRUE
        /\ pc = "createDeck" => ActionsOf(MutationCalls) = <<"createDeck">>
        /\ pc = "addNote" => ActionsOf(MutationCalls) = <<"createDeck", "addNote">>

(* The lookup found two notes: the call ends without a mutation. *)
C5_Witness ==
    /\ InCreate /\ req.name = "vocab" /\ pc = "done"
    /\ ids = <<3, 1>>
    /\ Len(LookupCalls) = 1 /\ MutationCalls = <<>>
    /\ Payload.success = FALSE /\ Payload.existingNoteIds = <<3, 1>>

----------------------------------------------------------------------------
(* Backend failures *)

(* The last envelope received was a failure: a non-OK status, or an error  *)
(* field holding a non-empty string.                                       *)
FailureReply ==
    /\ reply # NoReply
    /\ \/ ~reply.ok
       \/ (reply.error # <<>> /\ reply.error[1] # <<>>)

InHandler == req.kind # "none"

(* C6: when a backend call of a tool handler fails (non-OK status or a     *)
(* non-empty error string in the envelope) the handler rejects: no success *)
(* payload is returned, the failed call is not issued again and no later   *)
(* backend call of the invocation is issued.                               *)
C6_FailureRejects ==
    /\ [](InHandler /\ FailureReply => pc = "rejected" /\ result = NoResult)
    /\ [][(pc # "rejected" /\ pc' = "rejected") => calls' = calls]_vars
    /\ [][pc = "rejected" => (pc' = "idle" /\ calls' = <<>> /\ result' = NoResult)]_vars

(* The second backend call of an invocation failed. *)
C6_Witness ==
    /\ InHandler /\ FailureReply
    /\ pc = "rejected" /\ Len(calls) >= 2 /\ result = NoResult

----------------------------------------------------------------------------
(* The bulk fetch of the note search *)

FetchCalls == SelectSeq(calls, LAMBDA c : c.action = "notesInfo")

ExpectedPage ==
    IF AskedLimit > 0
    THEN ExpectedSlice(ExpectedIdOrder, ExpectedStart, AskedLimit)
    ELSE ExpectedIdOrder

(* Position of the only call with this action among the calls issued. *)
PositionOf(action) == CHOOSE i \in 1..Len(calls) : calls[i].action = action

(* C7: under added_asc / added_desc the candidate ids are sorted and       *)
(* sliced to the requested page before the bulk fetch, and the bulk fetch  *)
(* is called once, after the find call, with exactly the ids of the page   *)
(* in sorted order (ascending for added_asc, descending for added_desc).   *)
C7_FetchOnlyThePage ==
    (InPreset /\ ~Scheduling /\ IdOrderSort) =>
        /\ Len(FetchCalls) <= 1
        /\ Len(FetchCalls) = 1 =>
              /\ FetchCalls[1].params.notes = ExpectedPage
              /\ Range(FetchCalls[1].params.notes) \subseteq Range(ids)
              /\ PositionOf("findNotes") < PositionOf("notesInfo")
        /\ (pc = "done" /\ Len(FetchCalls) = 0) => ExpectedPage = <<>>
        /\ pc = "notesInfo" => Len(FetchCalls) = 1

(* Five candidates found oldest first, newest first requested, limit 2,    *)
(* page 2: the fetch asks for notes 3 and 2.                               *)
C7_Witness ==
    /\ InPreset /\ req.name = "search_notes" /\ pc = "notesInfo"
    /\ ids = <<1, 2, 3, 4, 5>>
    /\ AskedSort = "added_desc" /\ AskedLimit = 2 /\ AskedPage = 2
    /\ FetchCalls[1].params.notes = <<3, 2>>

----------------------------------------------------------------------------
(* The query a preset tool sends to the backend *)

QueryCalls ==
    SelectSeq(calls, LAMBDA c : c.action \in {"findNotes", "findCards"})

PresetQueried == InPreset /\ QueryCalls # <<>>

IssuedQuery == QueryCalls[1].params.query

(* t is s without its leading and trailing blanks. *)
IsTrimOf(t, s) ==
    \E a \in 0..Len(s) : \E b \in 0..(Len(s) - a) :
        /\ \A i \in 1..a : s[i] = " "
        /\ \A i \in (Len(s) - b + 1)..Len(s) : s[i] = " "
        /\ t = SubSeq(s, a + 1, Len(s) - b)
        /\ t # <<>> => (t[1] # " " /\ t[Len(t)] # " ")

(* q begins with s trimmed. *)
BeginsWithTrimOf(q, s) == \E n \in 0..Len(q) : IsTrimOf(SubSeq(q, 1, n), s)

RECURSIVE Concat(_)
Concat(parts) == IF parts = <<>> THEN <<>> ELSE Head(parts) \o Concat(Tail(parts))

(* The declared parameters whose placeholder stands at position i of the   *)
(* base query.                                                             *)
ParamsAt(preset, i) ==
    {k \in 1..Len(preset.parameters) :
        Placeholder(preset.parameters[k].key) = preset.baseQuery[i]}

FirstAt(s, i) == \A j \in 1..(i - 1) : s[j] # s[i]

NaturalForm(type, value) == IF type = "number" THEN <<ToString(value)>> ELSE value

ValueFor(preset, args, k) ==
    LET d == preset.parameters[k]
    IN  NaturalForm(d.type, IF d.key \in DOMAIN args THEN args[d.key] ELSE d.default)

(* The base query, position by position: the first occurrence of a         *)
(* declared placeholder gives way to the parameter's value, every other    *)
(* token stays.                                                            *)
ExpectedBase(preset, args) ==
    Concat([i \in 1..Len(preset.baseQuery) |->
               IF FirstAt(preset.baseQuery, i) /\ ParamsAt(preset, i) # {}
               THEN ValueFor(preset, args, CHOOSE k \in ParamsAt(preset, i) : TRUE)
               ELSE <<preset.baseQuery[i]>>])

(* No declared parameter, no search term and no tag filter was passed. *)
PlainCall ==
    /\ PresetQueried
    /\ DOMAIN req.args \cap (DeclaredKeys(CurPreset) \cup {"search", "tags"}) = {}

(* C8, as the specification states it: with no custom parameters, no       *)
(* search term and no tag filter the query is the preset's base query with *)
(* leading and trailing whitespace trimmed.                                *)
C8_AsStated == PlainCall => IsTrimOf(IssuedQuery, CurPreset.baseQuery)

(* C8, amended: with no custom parameters, no search term and no tag       *)
(* filter the query is the preset's base query in which the first          *)
(* occurrence of every declared placeholder is replaced by the declared    *)
(* default, with leading and trailing whitespace trimmed; for a preset     *)
(* that declares no parameters this is the trimmed base query.             *)
C8_TrimmedBaseWithDefaults ==
    PlainCall =>
        /\ IsTrimOf(IssuedQuery, ExpectedBase(CurPreset, NoArgs))
        /\ CurPreset.parameters = <<>> => IsTrimOf(IssuedQuery, CurPreset.baseQuery)

(* recent called without arguments asks for introduced:7. *)
C8_Witness ==
    /\ PlainCall /\ req.name = "recent"
    /\ IssuedQuery = <<"\"deck:TestDeck\"", " ", "introduced:", "7">>

HandlerKeys == {"search", "tags", "limit", "page", "sort", "include"}

(* C9: the placeholder of every declared parameter is replaced by the      *)
(* value the caller passed, or by the declared default when the caller     *)
(* passed none, numbers in their plain decimal form; arguments that are    *)
(* not declared parameters of the preset never reach the query.            *)
C9_ParameterSubstitution ==
    PresetQueried =>
        /\ BeginsWithTrimOf(IssuedQuery, ExpectedBase(CurPreset, req.args))
        /\ \A k \in DOMAIN req.args \ (DeclaredKeys(CurPreset) \cup HandlerKeys) :
              ToString(req.args[k]) \notin Range(IssuedQuery)

(* recent called with days = 14 and an undeclared weeks = 2. *)
C9_Witness ==
    /\ PresetQueried /\ req.name = "recent"
    /\ "days" \in DOMAIN req.args /\ "weeks" \in DOMAIN req.args
    /\ IssuedQuery = <<"\"deck:TestDeck\"", " ", "introduced:", "14">>

Count(s, token) == Cardinality({i \in 1..Len(s) : s[i] = token})

Occurs(part, s) ==
    \E k \in 0..(Len(s) - Len(part)) : SubSeq(s, k + 1, k + Len(part)) = part

SearchTerm == IF "search" \in DOMAIN req.args THEN req.args.search ELSE <<>>
TagFilter == IF "tags" \in DOMAIN req.args THEN req.args.tags ELSE <<>>

SearchClauseCount == IF SearchTerm = <<>> THEN 0 ELSE Len(CurPreset.searchFields)
TagClauseCount == Len(TagFilter)

Joins(n) == IF n >= 2 THEN n - 1 ELSE 0
Wraps(n) == IF n >= 2 THEN 1 ELSE 0

(* C10: a non-empty search term gives one Field:*term* clause per search   *)
(* field of the preset and a non-empty tag filter one tag:<t> clause per   *)
(* tag; a single clause is appended bare, two or more are joined with      *)
(* " OR " inside parentheses; an empty or absent term, a preset without    *)
(* search fields, or an empty or absent tag list adds nothing.             *)
C10_ClauseGroups ==
    PresetQueried =>
        /\ Count(IssuedQuery, ":*") = SearchClauseCount
        /\ SearchClauseCount > 0 =>
              \A i \in 1..Len(CurPreset.searchFields) :
                 Occurs(<<CurPreset.searchFields[i], ":*">> \o SearchTerm \o <<"*">>,
                        IssuedQuery)
        /\ Count(IssuedQuery, "tag:") = TagClauseCount
        /\ \A i \in 1..TagClauseCount : Occurs(<<"tag:", TagFilter[i]>>, IssuedQuery)
        /\ Count(IssuedQuery, "OR") = Joins(SearchClauseCount) + Joins(TagClauseCount)
        /\ Count(IssuedQuery, "(") = Wraps(SearchClauseCount) + Wraps(TagClauseCount)
        /\ Count(IssuedQuery, ")") = Wraps(SearchClauseCount) + Wraps(TagClauseCount)
        /\ (SearchClauseCount = 0 /\ TagClauseCount = 0) =>
              IsTrimOf(IssuedQuery, ExpectedBase(CurPreset, req.args))
        /\ (req.name = "search_notes" /\ SearchTerm = <<"hello">> /\ TagFilter = <<>>) =>
              IssuedQuery = <<"\"deck:TestDeck\"", " ",
                              "(", "Front", ":*", "hello", "*", " ", "OR", " ",
                              "Back", ":*", "hello", "*", ")">>
        /\ (req.name = "search_notes" /\ SearchTerm = <<>> /\ TagFilter = <<"verb">>) =>
              IssuedQuery = <<"\"deck:TestDeck\"", " ", "tag:", "verb">>
        /\ (req.name = "due" /\ SearchTerm = <<"go">> /\ TagFilter = <<>>) =>
              IssuedQuery = <<"is:due", " ", " ", "Front", ":*", "go", "*">>

(* Two search fields and two tags: two parenthesised groups. *)
C10_Witness ==
    /\ PresetQueried /\ req.name = "search_notes"
    /\ SearchTerm = <<"hello">> /\ TagFilter = <<"verb", "noun">>
    /\ IssuedQuery = <<"\"deck:TestDeck\"", " ",
                       "(", "Front", ":*", "hello", "*", " ", "OR", " ",
                       "Back", ":*", "hello", "*", ")", " ",
                       "(", "tag:", "verb", " ", "OR", " ", "tag:", "noun", ")">>

----------------------------------------------------------------------------
(* The parts of a built query *)

RECURSIVE OrChain(_)
OrChain(clauses) ==
    IF Len(clauses) = 1 THEN clauses[1]
    ELSE clauses[1] \o <<" ", "OR", " ">> \o OrChain(Tail(clauses))

ExpectedGroup(clauses) ==
    IF clauses = <<>> THEN <<>>
    ELSE IF Len(clauses) = 1 THEN clauses[1]
    ELSE <<"(">> \o OrChain(clauses) \o <<")">>

ExpectedSearchGroup ==
    ExpectedGroup([i \in 1..SearchClauseCount |->
                      <<CurPreset.searchFields[i], ":*">> \o SearchTerm \o <<"*">>])

ExpectedTagGroup ==
    ExpectedGroup([i \in 1..TagClauseCount |-> <<"tag:", TagFilter[i]>>])

Spaced(part) == IF part = <<>> THEN <<>> ELSE <<" ">> \o part

LeadingBlanks(s) ==
    CHOOSE a \in 0..Len(s) :
        (\A i \in 1..a : s[i] = " ") /\ (a = Len(s) \/ s[a + 1] # " ")

TrailingBlanks(s) ==
    CHOOSE b \in 0..Len(s) :
        (\A i \in (Len(s) - b + 1)..Len(s) : s[i] = " ")
        /\ (b = Len(s) \/ s[Len(s) - b] # " ")

(* s without its leading and trailing blanks. *)
TrimmedOf(s) ==
    IF LeadingBlanks(s) = Len(s) THEN <<>>
    ELSE SubSeq(s, LeadingBlanks(s) + 1, Len(s) - TrailingBlanks(s))

(* The handler has just sent its query. *)
QueryIssued == PresetQueried /\ pc \in {"findNotes", "findCards"}

(* The parts that are not empty, one blank between consecutive ones. *)
RECURSIVE OneSpaceJoin(_)
OneSpaceJoin(parts) ==
    IF parts = <<>> THEN <<>>
    ELSE IF Head(parts) = <<>> THEN OneSpaceJoin(Tail(parts))
    ELSE IF OneSpaceJoin(Tail(parts)) = <<>> THEN Head(parts)
    ELSE Head(parts) \o <<" ">> \o OneSpaceJoin(Tail(parts))

EndsInBlank(s) == s # <<>> /\ s[Len(s)] = " "

----------------------------------------------------------------------------
(* Projection *)

(* The include keys the caller set to true. *)
IncludeTrue ==
    IF "include" \in DOMAIN req.args
    THEN {k \in DOMAIN req.args.include : req.args.include[k]}
    ELSE {}

ExpectedKeys(fields) ==
    Range(CurPreset.defaultReturnedFields)
    \cup {k \in IncludeTrue \ {"noteId", "tags"} : k \in DOMAIN fields}
    \cup (IncludeTrue \cap {"noteId", "tags"})

----------------------------------------------------------------------------
(* Tool generation: generateAllTools() over a configuration.  A tool is    *)
(* its name and the names of its parameters in the order they are added    *)
(* to the schema object.                                                   *)

Tool(name, params) == [name |-> name, params |-> params]

(* A variant that offers include only for optional fields. *)
PresetParamsFieldsOnly(preset) ==
    [i \in 1..Len(preset.parameters) |-> preset.parameters[i].key]
    \o (IF Len(preset.searchFields) > 0 THEN <<"search">> ELSE <<>>)
    \o (IF Len(preset.optionalReturnedFields) > 0 THEN <<"include">> ELSE <<>>)
    \o (IF Len(preset.tagFilters) > 0 THEN <<"tags">> ELSE <<>>)
    \o (IF Len(preset.sortOptions) > 0 THEN <<"sort">> ELSE <<>>)
    \o <<"limit", "page">>

(* buildPresetTool: the keys of params *)
PresetParams(preset) ==
    [i \in 1..Len(preset.parameters) |-> preset.parameters[i].key]
    \o (IF Len(preset.searchFields) > 0 THEN <<"search">> ELSE <<>>)
    \o (IF Len(preset.optionalReturnedFields) > 0 \/ preset.optionalReturnedTags
        THEN <<"include">> ELSE <<>>)
    \o (IF Len(preset.tagFilters) > 0 THEN <<"tags">> ELSE <<>>)
    \o (IF Len(preset.sortOptions) > 0 THEN <<"sort">> ELSE <<>>)
    \o <<"limit", "page">>

buildPresetTool(preset) == Tool(preset.name, PresetParams(preset))

(* buildPracticeTools: the create tool, then the list tool *)
buildPracticeTools(cfg) ==
    <<Tool("create_" \o cfg.name, [i \in 1..Len(cfg.fields) |-> cfg.fields[i].name]),
      Tool("list_" \o cfg.name, <<>>)>>

buildUpdateTagsTool == Tool("update_tags", <<"noteIds", "add", "remove">>)

SyncTool == Tool("sync", <<>>)

RECURSIVE PracticeTools(_)
PracticeTools(practiceNotes) ==
    IF practiceNotes = <<>> THEN <<>>
    ELSE buildPracticeTools(Head(practiceNotes)) \o PracticeTools(Tail(practiceNotes))

(* A variant that leaves the tag tool out when there is no creation template. *)
generateToolsTagsIfTemplates(cfg) ==
    [i \in 1..Len(cfg.presets) |-> buildPresetTool(cfg.presets[i])]
    \o PracticeTools(cfg.practiceNotes)
    \o (IF cfg.practiceNotes = <<>> THEN <<>> ELSE <<buildUpdateTagsTool>>)
    \o <<SyncTool>>

generateAllTools(cfg) ==
    [i \in 1..Len(cfg.presets) |-> buildPresetTool(cfg.presets[i])]
    \o PracticeTools(cfg.practiceNotes)
    \o <<buildUpdateTagsTool, SyncTool>>

(* A preset of any shape the schema rules distinguish. *)
CustomPreset(hasParameter, hasSearch, hasTags, hasOptional, optionalTags) ==
    [name |-> "custom",
     baseQuery |-> <<"deck:Custom", " ", "rated:", "${days}">>,
     parameters |-> IF hasParameter
                    THEN <<[key |-> "days", type |-> "number", default |-> 7]>>
                    ELSE <<>>,
     searchFields |-> IF hasSearch THEN <<"Front">> ELSE <<>>,
     tagFilters |-> IF hasTags THEN <<"verb">> ELSE <<>>,
     defaultReturnedFields |-> <<"Front">>,
     optionalReturnedFields |-> IF hasOptional THEN <<"Back">> ELSE <<>>,
     optionalReturnedTags |-> optionalTags,
     includeSchedulingData |-> FALSE,
     defaultLimit |-> 10,
     defaultSort |-> "added_desc",
     sortOptions |-> <<"added_asc", "added_desc">>]

Configuration(presets, practiceNotes) ==
    [kind |-> "config", presets |-> presets, practiceNotes |-> practiceNotes]

(* The configuration is loaded: req holds it, nothing is generated yet. *)
GenInit ==
    /\ pc = "config"
    /\ \E k \in 0..Len(Presets), n \in 0..Len(PracticeNotes), backwards \in BOOLEAN :
          LET given == SubSeq(Presets, 1, k)
              templates == IF backwards THEN Reverse(SubSeq(PracticeNotes, 1, n))
                           ELSE SubSeq(PracticeNotes, 1, n)
          IN  \/ req = Configuration(given, templates)
              \/ \E p, s, t, o, ot \in BOOLEAN :
                    req = Configuration(<<CustomPreset(p, s, t, o, ot)>> \o given, templates)
    /\ calls = <<>>
    /\ ids = <<>>
    /\ infos = <<>>
    /\ result = NoResult
    /\ reply = NoReply
    /\ lastSyncTime = 0
    /\ now = 1

(* index.ts: for (const tool of generateAllTools()) server.tool(...) *)
Generate ==
    /\ pc = "config"
    /\ pc' = "generated"
    /\ result' = [kind |-> "tools", tools |-> generateAllTools(req)]
    /\ UNCHANGED <<req, calls, ids, infos, reply, lastSyncTime, now>>

GenNext == Generate

GenSpec == GenInit /\ [][GenNext]_vars

----------------------------------------------------------------------------
Generated == pc = "generated"
ToolNames == [i \in 1..Len(result.tools) |-> result.tools[i].name]

(* C13: generateAllTools returns, in this order, one tool per preset named *)
(* by the preset, then create_<name> and list_<name> for each creation     *)
(* template, then update_tags, then sync: |presets| + 2 * |practiceNotes|  *)
(* + 2 tools, update_tags and sync among them for every configuration.     *)
C13_ToolSet ==
    Generated =>
        LET P == Len(req.presets)
            N == Len(req.practiceNotes)
        IN  /\ Len(result.tools) = P + 2 * N + 2
            /\ \A i \in 1..P : ToolNames[i] = req.presets[i].name
            /\ \A j \in 1..N :
                  /\ ToolNames[P + 2 * j - 1] = "create_" \o req.practiceNotes[j].name
                  /\ ToolNames[P + 2 * j] = "list_" \o req.practiceNotes[j].name
            /\ ToolNames[P + 2 * N + 1] = "update_tags"
            /\ ToolNames[P + 2 * N + 2] = "sync"

(* Three presets and two creation templates: the nine tools of the tests. *)
C13_Witness ==
    /\ Generated
    /\ ToolNames = <<"search_notes", "recent", "struggling",
                     "create_practice", "list_practice", "create_vocab", "list_vocab",
                     "update_tags", "sync">>

(* C14: the parameter schema of a preset tool contains search iff the      *)
(* preset has at least one search field, tags iff it declares a non-empty  *)
(* allowed-tag list, include iff it has an optional field or optional tags *)
(* enabled, and always limit and page.                                     *)
C14_PresetSchema ==
    Generated =>
        \A i \in 1..Len(req.presets) :
           LET preset == req.presets[i]
               params == Range(result.tools[i].params)
           IN  /\ "search" \in params <=> preset.searchFields # <<>>
               /\ "tags" \in params <=> preset.tagFilters # <<>>
               /\ "include" \in params <=>
                     (preset.optionalReturnedFields # <<>> \/ preset.optionalReturnedTags)
               /\ {"limit", "page"} \subseteq params

(* No search field and no optional field, but a tag list and optional tags. *)
C14_Witness ==
    /\ Generated
    /\ Len(req.presets) >= 1
    /\ req.presets[1].searchFields = <<>> /\ req.presets[1].optionalReturnedFields = <<>>
    /\ req.presets[1].tagFilters # <<>> /\ req.presets[1].optionalReturnedTags
    /\ result.tools[1].params = <<"include", "tags", "sort", "limit", "page">>

----------------------------------------------------------------------------
(* Responses of the creation, list and tag tools *)

CreateDone == InCreate /\ pc = "done"
FieldNames(cfg) == {cfg.fields[i].name : i \in DOMAIN cfg.fields}
Supplied == DOMAIN req.args \cap FieldNames(CurTemplate)

(* C15: a successful create call returns success true, the new note id,    *)
(* the applied tags and an echo of every field the caller supplied; a      *)
(* duplicate-rejected call returns success false, a reason and the         *)
(* existing note ids, and no record is created.                            *)
C15_CreateResponse ==
    CreateDone =>
        IF Payload.success
        THEN /\ ActionsOf(calls)[Len(calls)] = "addNote"
             /\ Payload.noteId = reply.result
             /\ Payload.tags = <<CurTemplate.defaultTag>>
             /\ DOMAIN Payload.echo = Supplied
             /\ \A n \in Supplied : Payload.echo[n] = req.args[n]
        ELSE /\ DOMAIN Payload = {"success", "reason", "existingNoteIds"}
             /\ Payload.existingNoteIds = ids /\ ids # <<>>
             /\ MutationCalls = <<>>

InList == req.kind = "list"
ListDone == InList /\ pc = "done" /\ result.kind = "ok"

RequiredAt(cfg) == {i \in DOMAIN cfg.fields : cfg.fields[i].required}

(* The first field marked required, else the first declared field. *)
ExpectedPrimary(cfg) ==
    IF RequiredAt(cfg) = {} THEN cfg.fields[1].name
    ELSE cfg.fields[CHOOSE i \in RequiredAt(cfg) : \A j \in RequiredAt(cfg) : i <= j].name

(* The cleaned text of a field of a stored note: markup removed, &nbsp; a  *)
(* blank, ends trimmed; the empty string for a field the note lacks.       *)
CleanedField(id, field) ==
    IF field = "Front" THEN <<Word(id)>>
    ELSE IF field = "Back" THEN <<"back", " ", Word(id)>>
    ELSE IF id % 2 = 1 THEN <<"extra">>
    ELSE <<>>

(* C16: the list tool returns a flat array with one cleaned string per     *)
(* fetched note, in backend fetch order, taken from the primary field (the *)
(* first field marked required, else the first declared field; a note      *)
(* lacking it yields the empty string); when the deck query matches no     *)
(* note it returns an empty array without issuing a bulk-fetch call.       *)
C16_ListResponse ==
    /\ ListDone =>
          IF ids = <<>>
          THEN Payload = <<>> /\ ActionsOf(calls)[Len(calls)] = "findNotes"
          ELSE /\ reply.result = infos
               /\ Len(Payload) = Len(infos)
               /\ \A i \in 1..Len(infos) :
                     Payload[i] = CleanedField(infos[i].noteId, ExpectedPrimary(CurTemplate))
    /\ (InList /\ ids = <<>>) => \A i \in 1..Len(calls) : calls[i].action # "notesInfo"

(* The primary field is the second declared one and a note lacks it; the   *)
(* backend answered the bulk fetch in another order than it was asked.     *)
C16_Witness ==
    /\ ListDone /\ req.name = "extras"
    /\ ids = <<1, 2, 3>>
    /\ NoteIdsOf(infos) = <<2, 3, 1>>
    /\ Payload = <<<<>>, <<"extra">>, <<"extra">>>>

InUpdateTags == req.kind = "update_tags"
UpdateTagsDone == InUpdateTags /\ pc = "done" /\ result.kind = "ok"

TagCalls == SelectSeq(calls, LAMBDA c : c.action \in {"addTags", "removeTags"})

Given(key) == key \in DOMAIN req.args /\ req.args[key] # <<>>

(* The tags with one blank between neighbours. *)
SpaceJoined(tags) ==
    [i \in 1..(2 * Len(tags) - 1) |-> IF i % 2 = 1 THEN tags[(i + 1) \div 2] ELSE " "]

ExpectedTagCall(action, key) ==
    IF Given(key)
    THEN <<[action |-> action,
            params |-> [notes |-> req.args.noteIds, tags |-> SpaceJoined(req.args[key])]]>>
    ELSE <<>>

ExpectedTagCalls ==
    ExpectedTagCall("addTags", "add") \o ExpectedTagCall("removeTags", "remove")

(* C17: an update_tags call issues addTags exactly once iff the add list   *)
(* is present and non-empty, and removeTags exactly once iff the remove    *)
(* list is present and non-empty, addTags before removeTags, each tag list *)
(* sent as one space-joined string over the given note ids; the response   *)
(* is success true with the note ids and with added and removed equal to   *)
(* the supplied lists (the empty list when omitted).  While the call runs  *)
(* the tag calls issued so far are the beginning of that sequence.         *)
C17_UpdateTags ==
    InUpdateTags =>
        /\ \E n \in 0..Len(ExpectedTagCalls) : TagCalls = SubSeq(ExpectedTagCalls, 1, n)
        /\ UpdateTagsDone =>
              /\ TagCalls = ExpectedTagCalls
              /\ Payload.success = TRUE
              /\ Payload.noteIds = req.args.noteIds
              /\ Payload.added = (IF "add" \in DOMAIN req.args THEN req.args.add ELSE <<>>)
              /\ Payload.removed =
                    (IF "remove" \in DOMAIN req.args THEN req.args.remove ELSE <<>>)

(* Two tags to add and two to remove on two notes. *)
C17_Witness ==
    /\ UpdateTagsDone
    /\ req.args.noteIds = <<2, 1>>
    /\ TagCalls = <<[action |-> "addTags",
                     params |-> [notes |-> <<2, 1>>, tags |-> <<"verb", " ", "noun">>]],
                    [action |-> "removeTags",
                     params |-> [notes |-> <<2, 1>>, tags |-> <<"noun", " ", "verb">>]]>>
    /\ Payload.added = <<"verb", "noun">> /\ Payload.removed = <<"noun", "verb">>

----------------------------------------------------------------------------
(* Sorting and paging together *)

SchedulingSorts == {"lapses_asc", "lapses_desc", "ease_asc", "ease_desc"}

(* Record a comes strictly before record b under the sort mode. *)
StrictlyBefore(a, b, sort) ==
    IF sort = "lapses_asc" THEN a.lapses < b.lapses
    ELSE IF sort = "lapses_desc" THEN a.lapses > b.lapses
    ELSE IF sort = "ease_asc" THEN a.ease < b.ease
    ELSE IF sort = "ease_desc" THEN a.ease > b.ease
    ELSE IF sort = "modified_asc" THEN a.mod < b.mod
    ELSE IF sort = "modified_desc" THEN a.mod > b.mod
    ELSE FALSE

(* The fetched cards that stand for their note: the first of each note. *)
KeptCards == {j \in 1..Len(infos) : FirstOfItsNote(j)}

(* The position in the whole result of the i-th entry of the returned page. *)
GlobalPosition(i) == IF AskedLimit > 0 THEN ExpectedStart + i ELSE i

CardOfEntry(e) == CHOOSE j \in 1..Len(infos) : infos[j].interval = e.interval

NoteOfEntry(e) == CHOOSE id \in Range(ids) : e.Front = <<Word(id)>>

(* The returned note at position p of the whole result has the rank p      *)
(* under the sort mode among all candidates.                               *)
HasGlobalRank(id, p) ==
    IF AskedSort \in {"modified_asc", "modified_desc"}
    THEN /\ Cardinality({y \in Range(ids) :
                           StrictlyBefore(NoteInfo(y), NoteInfo(id), AskedSort)}) < p
         /\ Cardinality({y \in Range(ids) :
                           ~StrictlyBefore(NoteInfo(id), NoteInfo(y), AskedSort)}) >= p
    ELSE IF AskedSort = "added_asc" THEN Cardinality({y \in Range(ids) : y < id}) = p - 1
    ELSE IF AskedSort = "added_desc" THEN Cardinality({y \in Range(ids) : y > id}) = p - 1
    ELSE ids[p] = id

(* C19: for every sort mode of a non-scheduling search tool, modified_asc  *)
(* and modified_desc included, paging is consistent with the sort: with    *)
(* limit > 0 the pages 1, 2, ... together are the whole candidate set      *)
(* ordered by that sort mode, so under modified_desc every note on page k  *)
(* was modified no earlier than every note on page k+1.                    *)
C19_PagingFollowsSort ==
    (NotesDone /\ AskedLimit > 0) =>
        /\ Len(Payload.notes) =
              Cardinality(PositionsFrom(ids, ExpectedStart, AskedLimit))
        /\ \A i \in 1..Len(Payload.notes) :
              HasGlobalRank(NoteOfEntry(Payload.notes[i]), ExpectedStart + i)

ReturnedIds == [i \in 1..Len(Payload.notes) |-> NoteOfEntry(Payload.notes[i])]

(* C20: under an identifier-order sort the notes of the response are in    *)
(* the order of the sorted page of ids that was requested from the bulk    *)
(* fetch, in whatever order the backend returned the fetched records.      *)
C20_IdOrderRestored ==
    (NotesDone /\ IdOrderSort /\ FetchCalls # <<>>) =>
        /\ Len(FetchCalls) = 1
        /\ Range(NoteIdsOf(reply.result)) = Range(FetchCalls[1].params.notes)
        /\ ReturnedIds = FetchCalls[1].params.notes

(* Ids 3, 2 requested (descending, the default), fetched as 2, 3, returned *)
(* as 3, 2.                                                                *)
C20_Witness ==
    /\ NotesDone /\ AskedSort = "added_desc"
    /\ FetchCalls # <<>>
    /\ FetchCalls[1].params.notes = <<3, 2>>
    /\ NoteIdsOf(reply.result) = <<2, 3>>
    /\ ReturnedIds = <<3, 2>>

----------------------------------------------------------------------------
(* The staleness gate *)

(* A step in which a handler, or the start-up code, runs syncIfStale(). *)
GateChecked ==
    \/ pc = "boot" /\ pc' # "boot"
    \/ pc = "idle" /\ pc' \notin {"idle", "toolSync"}

(* The step is the completion of a sync that syncIfStale() awaited. *)
GateSyncSucceeded ==
    /\ pc \in {"sync", "bootSync"} /\ pc' # pc
    /\ ~invoke(reply').threw

SyncIssued == \E i \in 1..Len(calls') : calls'[i].action = "sync"

Elapsed == now - lastSyncTime

(* C23: syncIfStale issues a backend sync exactly when no gate-triggered   *)
(* sync has succeeded yet or more than syncIntervalSeconds have elapsed    *)
(* since the last successful one; otherwise it returns without any backend *)
(* call; after a sync succeeds it records the current time as the last     *)
(* sync time.                                                              *)
C23_GateDecision ==
    /\ [][GateChecked =>
             /\ SyncIssued <=> (lastSyncTime = 0 \/ Elapsed > SyncInterval)
             /\ SyncIssued => (pc' \in {"sync", "bootSync"} /\ Len(calls') = 1)]_vars
    /\ [][GateSyncSucceeded => lastSyncTime' = now]_vars

Gated == req.kind \in {"preset", "create", "list", "update_tags"}

WorkCalls == SelectSeq(calls, LAMBDA c : c.action # "sync")

(* C24: every preset, create, list and update_tags handler completes the   *)
(* staleness-gate check, including any sync it triggers, before it issues  *)
(* its first find, fetch or mutation backend call: a sync of the           *)
(* invocation is its first call, nothing else is issued while that sync is *)
(* awaited, and whenever such a call has been issued the gate is passed.   *)
C24_GateFirst ==
    Gated =>
        /\ \A i \in 1..Len(calls) : calls[i].action = "sync" => i = 1
        /\ pc = "sync" => Len(calls) = 1 /\ WorkCalls = <<>>
        /\ WorkCalls # <<>> => (lastSyncTime # 0 /\ Elapsed < SyncInterval)

(* A note search that had to sync first: sync, findNotes, notesInfo. *)
C24_Witness ==
    /\ Gated /\ pc = "done"
    /\ ActionsOf(calls) = <<"sync", "findNotes", "notesInfo">>

WorkActions == ActionsOf(WorkCalls)

(* C25: within one preset tool call, after the gate check, a               *)
(* non-scheduling preset issues exactly one findNotes followed by at most  *)
(* one notesInfo (none when the requested page is empty), and a            *)
(* scheduling-aware preset issues exactly one findCards followed by at     *)
(* most one cardsInfo (none when no card matches) and never findNotes or   *)
(* notesInfo; the bulk fetch never precedes the find call and no other     *)
(* backend action is issued.                                               *)
C25_PresetCallSequence ==
    InPreset =>
        /\ WorkActions = <<>> <=> (pc \in {"sync", "rejected"} /\ Len(calls) = 1
                                   /\ calls[1].action = "sync")
        /\ ~Scheduling =>
              /\ WorkActions \in {<<>>, <<"findNotes">>, <<"findNotes", "notesInfo">>}
              /\ pc = "done" =>
                    WorkActions = (IF ExpectedPage = <<>> THEN <<"findNotes">>
                                   ELSE <<"findNotes", "notesInfo">>)
        /\ Scheduling =>
              /\ WorkActions \in {<<>>, <<"findCards">>, <<"findCards", "cardsInfo">>}
              /\ pc = "done" =>
                    WorkActions = (IF ids = <<>> THEN <<"findCards">>
                                   ELSE <<"findCards", "cardsInfo">>)

(* Three candidates, two per page, page 3: the page is empty and no bulk   *)
(* fetch follows the find call.                                            *)
C25_Witness ==
    /\ NotesDone /\ Len(ids) = 3 /\ AskedLimit = 2 /\ AskedPage = 3
    /\ ActionsOf(calls) = <<"sync", "findNotes">>
    /\ Payload.notes = <<>>

PresetDone == InPreset /\ pc = "done"

(* Candidates that lie after the returned slice in the sorted sequence. *)
CandidatesAfter ==
    IF AskedLimit > 0
    THEN Max(0, Payload.total - (ExpectedStart + Len(Payload.notes)))
    ELSE 0

(* C26: hasMore is true only if at least one candidate lies after the      *)
(* returned slice in the sorted candidate sequence; in particular hasMore  *)
(* is false whenever the whole collection is returned (limit <= 0, for any *)
(* page) and whenever the requested page starts at or beyond the end of    *)
(* the candidates.                                                         *)
C26_HasMoreSound ==
    PresetDone =>
        /\ Payload.hasMore => CandidatesAfter > 0
        /\ AskedLimit <= 0 => ~Payload.hasMore
        /\ (AskedLimit > 0 /\ ExpectedStart >= Payload.total) => ~Payload.hasMore

(* The step receives a failure envelope for the sync the gate awaited. *)
GateSyncFailed == pc = "sync" /\ pc' # pc /\ invoke(reply').threw

StartupSyncFailed == pc = "bootSync" /\ pc' # pc /\ invoke(reply').threw

(* C27: if the sync issued by the staleness gate fails, the last-sync      *)
(* timestamp is left unchanged, so the gate stays stale and the next gated *)
(* call attempts the sync again, and the tool call that triggered it is    *)
(* rejected without issuing any find, fetch or mutation backend call; only *)
(* the sync attempted at server start-up has its failure swallowed.        *)
C27_GateSyncFailure ==
    /\ [][GateSyncFailed =>
             /\ lastSyncTime' = lastSyncTime
             /\ pc' = "rejected" /\ result' = NoResult
             /\ calls' = calls /\ WorkCalls = <<>>]_vars
    /\ [][StartupSyncFailed => (lastSyncTime' = lastSyncTime /\ pc' = "idle")]_vars
    /\ []((Gated /\ pc = "rejected" /\ WorkCalls = <<>>) => ~Fresh)
    /\ [][(pc = "idle" /\ ~Fresh /\ pc' \notin {"idle", "toolSync"}) =>
             (pc' = "sync" /\ ActionsOf(calls') = <<"sync">>)]_vars

(* The gate sync of a call fails one interval after an earlier successful  *)
(* sync: the call is rejected and the earlier time is still recorded.      *)
C27_Witness ==
    /\ Gated /\ pc = "rejected" /\ FailureReply
    /\ ActionsOf(calls) = <<"sync">>
    /\ lastSyncTime = 1 /\ now = 2

InSyncTool == req.kind = "sync"

(* C28: the sync tool issues exactly one backend sync on every call        *)
(* regardless of the staleness gate's state, returns success true, and     *)
(* leaves the gate's last-sync timestamp unchanged, so a gated tool call   *)
(* made right after an explicit sync still syncs again if the gate was     *)
(* stale.                                                                  *)
C28_SyncTool ==
    /\ [](InSyncTool =>
             /\ ActionsOf(calls) = <<"sync">>
             /\ pc \in {"toolSync", "done", "rejected"}
             /\ pc = "done" => Payload = [success |-> TRUE])
    /\ [][(pc = "idle" /\ pc' = "toolSync") => ActionsOf(calls') = <<"sync">>]_vars
    /\ [][(InSyncTool \/ pc' = "toolSync") => lastSyncTime' = lastSyncTime]_vars
    /\ [][(InSyncTool /\ pc = "done" /\ ~Fresh) => (pc' = "idle" /\ ~Fresh')]_vars

(* The explicit sync succeeds while the gate has never synced: the gate    *)
(* is still stale afterwards.                                              *)
C28_Witness ==
    /\ InSyncTool /\ pc = "done" /\ Payload = [success |-> TRUE]
    /\ lastSyncTime = 0 /\ ~Fresh

DuplicateField == CurTemplate.rejectDuplicates[1]

CallerValue ==
    IF DuplicateField \in DOMAIN req.args THEN req.args[DuplicateField] ELSE <<>>

(* C29: with a reject-duplicate field configured, the create handler       *)
(* issues the duplicate lookup (findNotes with <field>:<value>) iff the    *)
(* caller's value for that field is non-empty; when the value is empty or  *)
(* omitted, no lookup is made and the call proceeds to createDeck followed *)
(* by addNote.                                                             *)
C29_LookupIffValue ==
    (InCreate /\ CurTemplate.rejectDuplicates # <<>> /\ WorkCalls # <<>>) =>
        IF CallerValue # <<>>
        THEN /\ WorkCalls[1] = [action |-> "findNotes",
                                params |-> [query |-> <<DuplicateField, ":">> \o CallerValue]]
             /\ Len(LookupCalls) = 1
        ELSE /\ LookupCalls = <<>>
             /\ WorkActions \in {<<"createDeck">>, <<"createDeck", "addNote">>}
             /\ pc = "done" => WorkActions = <<"createDeck", "addNote">>

(* The field is supplied as the empty string: no lookup, the note is made. *)
C29_Witness ==
    /\ InCreate /\ req.name = "vocab" /\ pc = "done"
    /\ "Front" \in DOMAIN req.args /\ req.args.Front = <<>>
    /\ WorkActions = <<"createDeck", "addNote">>
    /\ Payload.success

----------------------------------------------------------------------------
(* Concurrent invocations.  Handlers are asynchronous functions: a call    *)
(* runs until its next await and other calls run meanwhile.  Here every    *)
(* per-call variable is a function of the call: pc[p], req[p], calls[p]    *)
(* (the requests p issued), ids[p] (what p's lookup answered), result[p];  *)
(* reply[p] records p's passage through the gate; infos is the backend's   *)
(* collection, which all calls share with lastSyncTime and the clock.      *)

Procs == 1..NumCalls

(* A template whose reject-duplicate field is not the note type's first. *)
GlossConfig ==
    [name |-> "gloss",
     deckName |-> "Gloss",
     noteType |-> "TestModel",
     fields |-> <<[name |-> "Front", required |-> TRUE],
                  [name |-> "Back", required |-> TRUE]>>,
     allowedTags |-> <<"verb">>,
     rejectDuplicates |-> <<"Back">>,
     defaultTag |-> "gloss"]

ConcTemplates == <<VocabConfig, GlossConfig>>

ConcTemplate(n) == CHOOSE c \in Range(ConcTemplates) : c.name = n

(* What call p may be asked to create: for vocab the same word in every   *)
(* call, for gloss the call's own word, and one meaning throughout.        *)
ConcArgs(p, name) ==
    {("Front" :> (IF name = "vocab" THEN <<"word">> ELSE <<Word(p)>>))
     @@ ("Back" :> <<"def">>)}

NoGate == [issuedAt |-> 0, outcome |-> "none", seen |-> [q \in Procs |-> "none"]]

(* AnkiConnect findNotes for <field>:<value>: the matching stored notes. *)
Matching(store, field, value) ==
    LET hits == SelectSeq(store, LAMBDA n : FieldValue(n.fields, field) = value)
    IN  [i \in 1..Len(hits) |-> hits[i].noteId]

(* AnkiConnect addNote with allowDuplicate false and duplicateScope deck:  *)
(* refused when a note of the deck has the same first field.               *)
BackendDuplicate(store, note, firstField) ==
    \E i \in 1..Len(store) :
       /\ store[i].deckName = note.deckName
       /\ store[i].fields[firstField] = note.fields[firstField]

ConcReject(p) ==
    /\ pc' = [pc EXCEPT ![p] = "rejected"]
    /\ result' = [result EXCEPT ![p] = NoResult]

ConcInit ==
    /\ pc = [p \in Procs |-> "idle"]
    /\ req = [p \in Procs |-> NoRequest]
    /\ calls = [p \in Procs |-> <<>>]
    /\ ids = [p \in Procs |-> <<>>]
    /\ infos = <<>>
    /\ result = [p \in Procs |-> NoResult]
    /\ reply = [p \in Procs |-> NoGate]
    /\ lastSyncTime = 0
    /\ now = 1

(* Time passes between tool calls and while a sync is in flight. *)
ConcTick ==
    /\ \/ \E p \in Procs : pc[p] = "sync"
       \/ \A p \in Procs : pc[p] \in {"idle", "done", "rejected"}
    /\ now < MaxTime
    /\ now' = now + 1
    /\ UNCHANGED <<pc, req, calls, ids, infos, result, reply, lastSyncTime>>

(* A create call arrives: await syncIfStale().  Calls are numbered in the  *)
(* order of their arrival.                                                 *)
ConcCall(p) ==
    /\ pc[p] = "idle" /\ req[p] = NoRequest
    /\ \A q \in 1..(p - 1) : req[q] # NoRequest
    /\ \E i \in DOMAIN ConcTemplates : \E args \in ConcArgs(p, ConcTemplates[i].name) :
          LET r == [kind |-> "create", name |-> ConcTemplates[i].name, args |-> args]
              body == CreateBodyOf(ConcTemplates[i], args)
          IN  /\ req' = [req EXCEPT ![p] = r]
              /\ IF Fresh
                 THEN /\ pc' = [pc EXCEPT ![p] = body.pc]
                      /\ calls' = [calls EXCEPT ![p] = body.calls]
                      /\ reply' = reply
                 ELSE /\ pc' = [pc EXCEPT ![p] = "sync"]
                      /\ calls' = [calls EXCEPT ![p] = <<Request("sync", NoArgs)>>]
                      /\ reply' = [reply EXCEPT ![p] =
                                      [issuedAt |-> now, outcome |-> "inflight",
                                       seen |-> [q \in Procs |-> reply[q].outcome]]]
    /\ UNCHANGED <<ids, infos, result, lastSyncTime, now>>

(* syncIfStale of call p after its await sync() *)
ConcGateSyncResponse(p) ==
    /\ pc[p] = "sync"
    /\ \E resp \in Responses({Null}) :
          IF invoke(resp).threw
          THEN /\ ConcReject(p)
               /\ reply' = [reply EXCEPT ![p].outcome = "failed"]
               /\ UNCHANGED <<calls, lastSyncTime>>
          ELSE LET body == CreateBodyOf(ConcTemplate(req[p].name), req[p].args)
               IN  /\ lastSyncTime' = now
                   /\ reply' = [reply EXCEPT ![p].outcome = "ok"]
                   /\ pc' = [pc EXCEPT ![p] = body.pc]
                   /\ calls' = [calls EXCEPT ![p] = calls[p] \o body.calls]
                   /\ UNCHANGED result
    /\ UNCHANGED <<req, ids, infos, now>>

(* create handler of call p after await findNotes(dupeQuery) *)
ConcDupFindResponse(p) ==
    /\ pc[p] = "dupFind"
    /\ LET cfg == ConcTemplate(req[p].name)
           found == Matching(infos, cfg.rejectDuplicates[1],
                             CreateFields(cfg, req[p].args)[cfg.rejectDuplicates[1]])
       IN  \E resp \in Responses({found}) :
              IF invoke(resp).threw
              THEN ConcReject(p) /\ UNCHANGED <<calls, ids>>
              ELSE /\ ids' = [ids EXCEPT ![p] = invoke(resp).value]
                   /\ IF HasExisting(invoke(resp).value)
                      THEN /\ pc' = [pc EXCEPT ![p] = "done"]
                           /\ calls' = calls
                           /\ result' = [result EXCEPT ![p] =
                                 textResult(Rejection(cfg, req[p].args, invoke(resp).value))]
                      ELSE /\ pc' = [pc EXCEPT ![p] = "createDeck"]
                           /\ calls' = [calls EXCEPT ![p] =
                                           Append(calls[p], CreateDeckRequest(cfg))]
                           /\ result' = result
    /\ UNCHANGED <<req, infos, reply, lastSyncTime, now>>

(* create handler of call p after await createDeck(cfg.deckName) *)
ConcCreateDeckResponse(p) ==
    /\ pc[p] = "createDeck"
    /\ \E resp \in Responses(DeckIds) :
          IF invoke(resp).threw
          THEN ConcReject(p) /\ UNCHANGED calls
          ELSE /\ pc' = [pc EXCEPT ![p] = "addNote"]
               /\ calls' = [calls EXCEPT ![p] =
                               Append(calls[p],
                                      AddNoteRequest(ConcTemplate(req[p].name), req[p].args))]
               /\ UNCHANGED result
    /\ UNCHANGED <<req, ids, infos, reply, lastSyncTime, now>>

(* create handler of call p after await addNote(...): the backend stored   *)
(* the note and answered its id, or refused.                               *)
ConcAddNoteResponse(p) ==
    /\ pc[p] = "addNote"
    /\ LET cfg == ConcTemplate(req[p].name)
           note == calls[p][Len(calls[p])].params.note
           noteId == Len(infos) + 1
       IN  \/ /\ ~BackendDuplicate(infos, note, cfg.fields[1].name)
              /\ infos' = Append(infos, [noteId |-> noteId, deckName |-> note.deckName,
                                         fields |-> note.fields])
              /\ pc' = [pc EXCEPT ![p] = "done"]
              /\ result' = [result EXCEPT ![p] =
                               textResult(Created(cfg, req[p].args, noteId))]
           \/ /\ \E resp \in {HttpFailure, ErrorEnvelope({Null})} : invoke(resp).threw
              /\ ConcReject(p)
              /\ UNCHANGED infos
    /\ UNCHANGED <<req, calls, ids, reply, lastSyncTime, now>>

ConcNext ==
    \/ ConcTick
    \/ \E p \in Procs : ConcCall(p)
    \/ \E p \in Procs : ConcGateSyncResponse(p)
    \/ \E p \in Procs : ConcDupFindResponse(p)
    \/ \E p \in Procs : ConcCreateDeckResponse(p)
    \/ \E p \in Procs : ConcAddNoteResponse(p)

ConcSpec == ConcInit /\ [][ConcNext]_vars

----------------------------------------------------------------------------
(* Concurrent create calls *)

Succeeded(p) == pc[p] = "done" /\ result[p].kind = "ok" /\ result[p].payload.success

DuplicateValue(p) ==
    LET cfg == ConcTemplate(req[p].name)
    IN  CreateFields(cfg, req[p].args)[cfg.rejectDuplicates[1]]

SameValue(p, q) ==
    /\ req[p] # NoRequest /\ req[q] # NoRequest
    /\ req[p].name = req[q].name
    /\ DuplicateValue(p) # <<>>
    /\ DuplicateValue(p) = DuplicateValue(q)

(* C21: for a creation template with a reject-duplicate field, under any   *)
(* interleaving of concurrent create calls, no two calls that carry the    *)
(* same non-empty value for that field both reach addNote and return       *)
(* success true.                                                           *)
C21_NoConcurrentDuplicate ==
    \A p, q \in Procs :
       (p # q /\ SameValue(p, q)) => ~(Succeeded(p) /\ Succeeded(q))

----------------------------------------------------------------------------
(* The shared timestamp under concurrent calls *)

GateSynced(p) == reply[p].issuedAt # 0

Apart(p, q) ==
    IF reply[p].issuedAt >= reply[q].issuedAt
    THEN reply[p].issuedAt - reply[q].issuedAt
    ELSE reply[q].issuedAt - reply[p].issuedAt

(* One of the two syncs was issued while the other was awaited. *)
Overlapped(p, q) == reply[q].seen[p] = "inflight" \/ reply[p].seen[q] = "inflight"

(* One of the two syncs was issued after the other had failed. *)
AfterFailure(p, q) == reply[q].seen[p] = "failed" \/ reply[p].seen[q] = "failed"

TimestampSteps ==
    /\ [][lastSyncTime' >= lastSyncTime]_vars
    /\ [][lastSyncTime' # lastSyncTime =>
             /\ lastSyncTime' = now
             /\ \E p \in Procs : pc[p] = "sync" /\ reply'[p].outcome = "ok"]_vars

(* C22, as the specification states it: under any interleaving of          *)
(* concurrent tool invocations the shared last-sync timestamp never        *)
(* decreases and is always either zero or the completion time of a         *)
(* gate-triggered sync that succeeded; overlapping invocations that both   *)
(* observe a stale gate may each issue a sync, and that is the only way    *)
(* two gate-triggered syncs occur less than syncIntervalSeconds apart.     *)
C22_AsStated ==
    /\ TimestampSteps
    /\ [](\A p, q \in Procs :
             (p # q /\ GateSynced(p) /\ GateSynced(q) /\ Apart(p, q) < SyncInterval)
                => Overlapped(p, q))

(* C22, amended: the timestamp never decreases and changes only to the     *)
(* completion time of a gate-triggered sync that succeeded; two            *)
(* gate-triggered syncs are issued less than syncIntervalSeconds apart     *)
(* only when one was issued while the other was in flight or after the     *)
(* other had failed, never after the other had succeeded.                  *)
C22_TimestampAndOverlap ==
    /\ TimestampSteps
    /\ [](\A p, q \in Procs :
             (p # q /\ GateSynced(p) /\ GateSynced(q) /\ Apart(p, q) < SyncInterval)
                => /\ Overlapped(p, q) \/ AfterFailure(p, q)
                   /\ reply[q].seen[p] # "ok" /\ reply[p].seen[q] # "ok")

(* Two calls found the gate stale, the second while the first call's sync  *)
(* was in flight; both syncs succeeded, the last one a clock reading later. *)
C22_Witness ==
    /\ reply[1].outcome = "ok" /\ reply[2].outcome = "ok"
    /\ reply[1].issuedAt = 1 /\ reply[2].issuedAt = 1
    /\ reply[2].seen[1] = "inflight"
    /\ lastSyncTime = 2 /\ now = 2

----------------------------------------------------------------------------
(* HTTP mode: startHttp().  ids is the set of keys of the sessions map,    *)
(* infos[s] the state of the transport that was given session id s, req    *)
(* the HTTP request being served, result the response it got, pc the await *)
(* the fetch handler is suspended at.                                      *)

SessionIds == 1..MaxSessions

(* A session id no transport was ever given. *)
UnknownSession == MaxSessions + 1

(* No mcp-session-id header. *)
NoHeader == 0

(* What the body of a POST is: an initialize request, another JSON-RPC     *)
(* message, or text that req.json() cannot parse.                          *)
Bodies == {"initialize", "other", "unparseable"}

HttpRequest(path, method, header, body, mapped) ==
    [kind |-> "http", path |-> path, method |-> method, header |-> header,
     body |-> body, mapped |-> mapped]

Response(status, handledBy) == [kind |-> "response", status |-> status,
                                handledBy |-> handledBy]

NoTransport == 0

(* The id crypto.randomUUID() gives the next transport: one never used. *)
FreshSessionId == CHOOSE s \in SessionIds : infos[s] = "none" /\ \A r \in 1..(s - 1) : infos[r] # "none"

(* The ids a client can send: those a transport has been given (a random   *)
(* UUID is not known to anyone before that).                               *)
IssuedSessions == {s \in SessionIds : infos[s] \in {"initialized", "closed"}}

HttpInit ==
    /\ pc = "idle"
    /\ req = NoRequest
    /\ calls = <<>>
    /\ ids = {}
    /\ infos = [s \in SessionIds |-> "none"]
    /\ result = NoResult
    /\ reply = NoReply
    /\ lastSyncTime = 0
    /\ now = 1

(* fetch: the synchronous head of the handler, up to its first await. *)
HttpReceive ==
    /\ pc = "idle"
    /\ \E path \in {"/mcp", "/health"}, method \in {"POST", "GET", "DELETE"},
          header \in {NoHeader, UnknownSession} \cup IssuedSessions, body \in Bodies :
          LET r == HttpRequest(path, method, header, body, header \in ids)
          IN  /\ (method = "POST" /\ body = "initialize" /\ header \notin ids
                  /\ path = "/mcp") => \E s \in SessionIds : infos[s] = "none"
              /\ req' = r
              /\ IF path # "/mcp"
                 THEN /\ result' = Response(404, NoTransport)
                      /\ UNCHANGED <<pc, ids, infos>>
                 ELSE IF header # NoHeader /\ header \in ids
                 THEN /\ result' = Response(200, header)
                      /\ pc' = pc
                      \* transport.handleRequest(req): a DELETE ends the session,
                      \* the transport closes and its onclose runs
                      /\ IF method = "DELETE"
                         THEN /\ infos' = [infos EXCEPT ![header] = "closed"]
                              /\ ids' = ids \ {header}
                         ELSE UNCHANGED <<ids, infos>>
                 ELSE IF method = "POST"
                 THEN /\ pc' = "json"
                      /\ result' = NoResult
                      /\ UNCHANGED <<ids, infos>>
                 ELSE /\ result' = Response(400, NoTransport)
                      /\ UNCHANGED <<pc, ids, infos>>
    /\ UNCHANGED <<calls, reply, lastSyncTime, now>>

(* after await req.json(): it threw, or isInitializeRequest(body) decides *)
HttpBodyParsed ==
    /\ pc = "json"
    /\ IF req.body = "unparseable"
       THEN /\ pc' = "idle"
            /\ result' = Response(500, NoTransport)
            /\ UNCHANGED <<calls, infos>>
       ELSE IF req.body = "initialize"
       THEN /\ infos' = [infos EXCEPT ![FreshSessionId] = "created"]
            /\ result' = result
            /\ IF Fresh
               THEN pc' = "handle" /\ calls' = calls
               ELSE pc' = "httpSync" /\ calls' = <<Request("sync", NoArgs)>>
       ELSE /\ pc' = "idle"
            /\ result' = Response(400, NoTransport)
            /\ UNCHANGED <<calls, infos>>
    /\ UNCHANGED <<req, ids, reply, lastSyncTime, now>>

(* await syncIfStale().catch(() => {}) of the new session *)
HttpSyncResponse ==
    /\ pc = "httpSync"
    /\ \E resp \in Responses({Null}) :
          /\ reply' = resp
          /\ lastSyncTime' = IF invoke(resp).threw THEN lastSyncTime ELSE now
    /\ pc' = "handle"
    /\ UNCHANGED <<req, calls, ids, infos, result, now>>

(* transport.handleRequest(req, { parsedBody }): the transport takes its   *)
(* session id and calls onsessioninitialized                               *)
HttpSessionInitialized ==
    /\ pc = "handle"
    /\ \E s \in SessionIds :
          /\ infos[s] = "created"
          /\ infos' = [infos EXCEPT ![s] = "initialized"]
          /\ ids' = ids \cup {s}
          /\ result' = Response(200, s)
    /\ pc' = "idle"
    /\ UNCHANGED <<req, calls, reply, lastSyncTime, now>>

(* A transport closes for a reason of its own: transport.onclose *)
HttpTransportClosed ==
    /\ \E s \in SessionIds :
          /\ infos[s] = "initialized"
          /\ infos' = [infos EXCEPT ![s] = "closed"]
          /\ ids' = ids \ {s}
    /\ UNCHANGED <<pc, req, calls, result, reply, lastSyncTime, now>>

(* Date.now() advances. *)
HttpTick ==
    /\ now < MaxTime
    /\ now' = now + 1
    /\ UNCHANGED <<pc, req, calls, ids, infos, result, reply, lastSyncTime>>

HttpNext ==
    \/ HttpTick
    \/ HttpReceive
    \/ HttpBodyParsed
    \/ HttpSyncResponse
    \/ HttpSessionInitialized
    \/ HttpTransportClosed

HttpSpec == HttpInit /\ [][HttpNext]_vars

----------------------------------------------------------------------------
(* The request served in this step got its response. *)
Responded == result' # NoResult /\ (req' # req \/ pc # "idle")

InitializePost == req'.method = "POST" /\ req'.body = "initialize"

(* C30: in HTTP mode a session id is in the session map exactly from its   *)
(* transport's session-initialized callback until that transport closes; a *)
(* request to /mcp is handed to an existing session's transport iff its    *)
(* mcp-session-id header is in the map; a request to /mcp with no mapped   *)
(* session that is not an initialize POST gets a 400 JSON-RPC error and     *)
(* leaves the map unchanged; a request to any other path gets 404 and      *)
(* leaves the map unchanged.                                               *)
C30_SessionMap ==
    /\ [](ids = {s \in SessionIds : infos[s] = "initialized"})
    /\ [][(Responded /\ req'.path = "/mcp") =>
             (req'.mapped <=> (result'.handledBy = req'.header /\ req'.header # NoHeader))]_vars
    /\ [][(Responded /\ req'.path = "/mcp" /\ ~req'.mapped /\ ~InitializePost) =>
             (result'.status = 400 /\ ids' = ids)]_vars
    /\ [][(Responded /\ req'.path # "/mcp") => (result'.status = 404 /\ ids' = ids)]_vars

====
